---- MODULE Spec2Model ----
(***************************************************************************)
(* TeslaJustice: the case deduplication and linking pipeline.              *)
(*                                                                         *)
(* Texts are sequences of one-character strings, so that the keyword       *)
(* heuristics (String.includes, the regular expressions) are computed on   *)
(* the characters as the code computes them.                               *)
(*                                                                         *)
(* Similarity scores are rationals in the code; here every score is an     *)
(* integer number of 1/1200ths (ScoreUnit), which represents every term of *)
(* the weighted sum exactly for whole hours and at most six damage tags.   *)
(***************************************************************************)
EXTENDS Integers, Sequences, FiniteSets, TLC

(***************************************************************************)
(* Strings                                                                 *)
(***************************************************************************)

\* null / undefined of a nullable column or field; never equal to a text
Null == <<"NULL">>

UpperCase == <<"A", "B", "C", "D", "E", "F", "G", "H", "I", "J", "K", "L", "M", "N", "O", "P", "Q", "R", "S", "T", "U", "V", "W", "X", "Y", "Z">>

LowerCase == <<"a", "b", "c", "d", "e", "f", "g", "h", "i", "j", "k", "l", "m", "n", "o", "p", "q", "r", "s", "t", "u", "v", "w", "x", "y", "z">>

\* the class \s of the regular expressions
Whitespace == {" ", "\t", "\n", "\r"}

IsUpper(c) == \E i \in 1..26 : UpperCase[i] = c

IsLetter(c) == \E i \in 1..26 : UpperCase[i] = c \/ LowerCase[i] = c

LowerChar(c) == IF IsUpper(c) THEN LowerCase[CHOOSE i \in 1..26 : UpperCase[i] = c] ELSE c

toLowerCase(text) == [i \in 1..Len(text) |-> LowerChar(text[i])]

\* String.prototype.includes
includes(text, kw) == \E i \in 1..(Len(text) - Len(kw) + 1) : SubSeq(text, i, i + Len(kw) - 1) = kw

\* index of the first character at or after position i that is not whitespace
SkipSpace(text, i) == IF \E j \in i..Len(text) : text[j] \notin Whitespace THEN CHOOSE j \in i..Len(text) : text[j] \notin Whitespace /\ \A k \in i..(j - 1) : text[k] \in Whitespace ELSE Len(text) + 1

\* String.prototype.trim
trim(text) == IF \A i \in 1..Len(text) : text[i] \in Whitespace THEN <<>> ELSE SubSeq(text, SkipSpace(text, 1), CHOOSE j \in 1..Len(text) : text[j] \notin Whitespace /\ \A k \in (j + 1)..Len(text) : text[k] \in Whitespace)

\* x || fallback for a string x: the empty string is falsy
OrElse(x, fallback) == IF x = <<>> \/ x = Null THEN fallback ELSE x

(***************************************************************************)
(* Content analyzer (keyword stub)                                         *)
(***************************************************************************)

\* relevance scores are in 1/100ths
RELEVANCE_THRESHOLD == 70

\* the class [A-Za-z\s]
InCityClass(c) == IsLetter(c) \/ c \in Whitespace

\* index of the first character at or after position s outside [A-Za-z\s]
CityEnd(text, s) == IF \E j \in s..Len(text) : ~InCityClass(text[j]) THEN CHOOSE j \in s..Len(text) : ~InCityClass(text[j]) /\ \A k \in s..(j - 1) : InCityClass(text[k]) ELSE Len(text) + 1

\* mutant: the pattern lacks the \s* between the comma and the state
CityStateMatchesAt_NoBlank(text, i) == /\ i + 2 <= Len(text)
                                       /\ text[i] = "i" /\ text[i + 1] = "n" /\ text[i + 2] = " "
                                       /\ LET j == CityEnd(text, i + 3)
                                          IN /\ j > i + 3
                                             /\ j <= Len(text) /\ text[j] = ","
                                             /\ j + 2 <= Len(text)
                                             /\ IsUpper(text[j + 1]) /\ IsUpper(text[j + 2])

\* /in ([A-Za-z\s]+),\s*([A-Z]{2})/ matched at position i: the literal "in ",
\* the greedy run of letters and whitespace (non-empty; it cannot contain the
\* comma, so the run is maximal), ",", optional whitespace, two capitals
CityStateMatchesAt(text, i) == /\ i + 2 <= Len(text)
                               /\ text[i] = "i" /\ text[i + 1] = "n" /\ text[i + 2] = " "
                               /\ LET j == CityEnd(text, i + 3)
                                      k == SkipSpace(text, j + 1)
                                  IN /\ j > i + 3
                                     /\ j <= Len(text) /\ text[j] = ","
                                     /\ k + 1 <= Len(text)
                                     /\ IsUpper(text[k]) /\ IsUpper(text[k + 1])

\* String.prototype.match takes the leftmost match
extractLocationInfo(text) == IF \E i \in 1..Len(text) : CityStateMatchesAt(text, i)
                             THEN LET i == CHOOSE m \in 1..Len(text) : CityStateMatchesAt(text, m) /\ \A h \in 1..(m - 1) : ~CityStateMatchesAt(text, h)
                                      j == CityEnd(text, i + 3)
                                      k == SkipSpace(text, j + 1)
                                  IN [city |-> trim(SubSeq(text, i + 3, j - 1)), state |-> SubSeq(text, k, k + 1), country |-> <<"U", "S">>]
                             ELSE [city |-> <<>>, state |-> <<>>, country |-> <<"U", "S">>]

\* /model\s*<c>/i tested on the lower-cased text
MatchesModel(textLower, c) == \E i \in 1..(Len(textLower) - 4) : /\ SubSeq(textLower, i, i + 4) = <<"m", "o", "d", "e", "l">>
                                                                 /\ LET k == SkipSpace(textLower, i + 5) IN k <= Len(textLower) /\ textLower[k] = c

\* the first model pattern, in the order of modelPatterns, that matches
ExtractModel(textLower) == IF includes(textLower, <<"c", "y", "b", "e", "r", "t", "r", "u", "c", "k">>) THEN <<"C", "y", "b", "e", "r", "t", "r", "u", "c", "k">>
                           ELSE IF MatchesModel(textLower, "s") THEN <<"M", "o", "d", "e", "l", " ", "S">>
                           ELSE IF MatchesModel(textLower, "3") THEN <<"M", "o", "d", "e", "l", " ", "3">>
                           ELSE IF MatchesModel(textLower, "x") THEN <<"M", "o", "d", "e", "l", " ", "X">>
                           ELSE IF MatchesModel(textLower, "y") THEN <<"M", "o", "d", "e", "l", " ", "Y">>
                           ELSE <<>>

\* the first colour pattern, in the order of colorPatterns, that matches
ExtractColor(textLower) == IF includes(textLower, <<"w", "h", "i", "t", "e">>) THEN <<"w", "h", "i", "t", "e">>
                           ELSE IF includes(textLower, <<"b", "l", "a", "c", "k">>) THEN <<"b", "l", "a", "c", "k">>
                           ELSE IF includes(textLower, <<"r", "e", "d">>) THEN <<"r", "e", "d">>
                           ELSE IF includes(textLower, <<"b", "l", "u", "e">>) THEN <<"b", "l", "u", "e">>
                           ELSE IF includes(textLower, <<"s", "i", "l", "v", "e", "r">>) THEN <<"s", "i", "l", "v", "e", "r">>
                           ELSE IF includes(textLower, <<"g", "r", "a", "y">>) \/ includes(textLower, <<"g", "r", "e", "y">>) THEN <<"g", "r", "a", "y">>
                           ELSE <<>>

\* the extracted year is read by no decision of the pipeline and is left out
extractVehicleInfo(text) == [make |-> <<"T", "e", "s", "l", "a">>, model |-> ExtractModel(toLowerCase(text)), color |-> ExtractColor(toLowerCase(text))]

hasTeslaReference(textLower) == includes(textLower, <<"t", "e", "s", "l", "a">>)
                                \/ includes(textLower, <<"c", "y", "b", "e", "r", "t", "r", "u", "c", "k">>)
                                \/ includes(textLower, <<"m", "o", "d", "e", "l", " ", "s">>)
                                \/ includes(textLower, <<"m", "o", "d", "e", "l", " ", "3">>)
                                \/ includes(textLower, <<"m", "o", "d", "e", "l", " ", "x">>)
                                \/ includes(textLower, <<"m", "o", "d", "e", "l", " ", "y">>)

hasVandalismReference(textLower) == includes(textLower, <<"v", "a", "n", "d", "a", "l", "i", "s", "m">>)
                                    \/ includes(textLower, <<"v", "a", "n", "d", "a", "l", "i", "z", "e", "d">>)
                                    \/ includes(textLower, <<"d", "a", "m", "a", "g", "e", "d">>)
                                    \/ includes(textLower, <<"k", "e", "y", "e", "d">>)
                                    \/ includes(textLower, <<"s", "c", "r", "a", "t", "c", "h", "e", "d">>)
                                    \/ includes(textLower, <<"b", "r", "o", "k", "e", "n">>)
                                    \/ includes(textLower, <<"s", "m", "a", "s", "h", "e", "d">>)
                                    \/ includes(textLower, <<"g", "r", "a", "f", "f", "i", "t", "i">>)

\* (teslaScore * 0.4) + (vandalismScore * 0.6) with both scores 0.8 or 0
relevanceScore(textLower) == (IF hasTeslaReference(textLower) THEN 32 ELSE 0) + (IF hasVandalismReference(textLower) THEN 48 ELSE 0)

\* the fields of the returned analysis that the pipeline reads; the object
\* has no field named text and no field named mediaUrls
analyzeTextContent(text) == [isRelevant |-> relevanceScore(toLowerCase(text)) > RELEVANCE_THRESHOLD,
                             relevanceScore |-> relevanceScore(toLowerCase(text)),
                             locationInfo |-> extractLocationInfo(text),
                             vehicleInfo |-> extractVehicleInfo(text)]

\* analysis.text || '' : reading a field the analysis does not have
AnalysisText(analysis) == IF "text" \in DOMAIN analysis THEN analysis.text ELSE <<>>

(***************************************************************************)
(* Case management: classification of a post                               *)
(***************************************************************************)

determineTargetType(content) == LET textLower == toLowerCase(content)
                                IN IF includes(textLower, <<"b", "u", "i", "l", "d", "i", "n", "g">>) \/ includes(textLower, <<"s", "t", "o", "r", "e">>) \/ includes(textLower, <<"d", "e", "a", "l", "e", "r", "s", "h", "i", "p">>) \/ includes(textLower, <<"s", "h", "o", "w", "r", "o", "o", "m">>) \/ includes(textLower, <<"s", "u", "p", "e", "r", "c", "h", "a", "r", "g", "e", "r">>)
                                   THEN "building"
                                   ELSE IF includes(textLower, <<"p", "r", "o", "p", "e", "r", "t", "y">>) \/ includes(textLower, <<"s", "i", "g", "n">>) \/ includes(textLower, <<"b", "i", "l", "l", "b", "o", "a", "r", "d">>)
                                   THEN "property"
                                   ELSE "vehicle"

determineBuildingType(text) == LET textLower == toLowerCase(text)
                               IN IF includes(textLower, <<"d", "e", "a", "l", "e", "r", "s", "h", "i", "p">>) \/ includes(textLower, <<"s", "h", "o", "w", "r", "o", "o", "m">>) THEN <<"d", "e", "a", "l", "e", "r", "s", "h", "i", "p">>
                                  ELSE IF includes(textLower, <<"s", "u", "p", "e", "r", "c", "h", "a", "r", "g", "e", "r">>) \/ includes(textLower, <<"c", "h", "a", "r", "g", "i", "n", "g">>) THEN <<"s", "u", "p", "e", "r", "c", "h", "a", "r", "g", "e", "r">>
                                  ELSE IF includes(textLower, <<"s", "t", "o", "r", "e">>) THEN <<"s", "t", "o", "r", "e">>
                                  ELSE IF includes(textLower, <<"f", "a", "c", "t", "o", "r", "y">>) \/ includes(textLower, <<"g", "i", "g", "a", "f", "a", "c", "t", "o", "r", "y">>) THEN <<"f", "a", "c", "t", "o", "r", "y">>
                                  ELSE <<"o", "t", "h", "e", "r">>

determinePropertyType(text) == LET textLower == toLowerCase(text)
                               IN IF includes(textLower, <<"s", "i", "g", "n">>) \/ includes(textLower, <<"b", "i", "l", "l", "b", "o", "a", "r", "d">>) THEN <<"s", "i", "g", "n">>
                                  ELSE IF includes(textLower, <<"e", "q", "u", "i", "p", "m", "e", "n", "t">>) THEN <<"e", "q", "u", "i", "p", "m", "e", "n", "t">>
                                  ELSE <<"o", "t", "h", "e", "r">>

createTargetDetails(targetType, analysis) == IF targetType = "vehicle"
                                             THEN [type |-> "vehicle", make |-> <<"T", "e", "s", "l", "a">>, model |-> analysis.vehicleInfo.model, color |-> analysis.vehicleInfo.color]
                                             ELSE IF targetType = "building"
                                             THEN [type |-> "building", building_type |-> determineBuildingType(AnalysisText(analysis))]
                                             ELSE [type |-> "property", property_type |-> determinePropertyType(AnalysisText(analysis))]

\* the tags in the order the code pushes them
PushIf(cond, tag) == IF cond THEN <<tag>> ELSE <<>>

\* determineDamageType without the generic tag of its last branch
determineDamageType_NoFallback(content) == LET textLower == toLowerCase(content)
                                    damageTypes == PushIf(includes(textLower, <<"k", "e", "y">>) \/ includes(textLower, <<"s", "c", "r", "a", "t", "c", "h">>), "keying")
                                                   \o PushIf(includes(textLower, <<"w", "i", "n", "d", "o", "w">>) /\ (includes(textLower, <<"b", "r", "e", "a", "k">>) \/ includes(textLower, <<"b", "r", "o", "k", "e">>) \/ includes(textLower, <<"b", "r", "o", "k", "e", "n">>) \/ includes(textLower, <<"s", "m", "a", "s", "h">>)), "broken_windows")
                                                   \o PushIf(includes(textLower, <<"g", "r", "a", "f", "f", "i", "t", "i">>) \/ includes(textLower, <<"s", "p", "r", "a", "y">>) \/ includes(textLower, <<"p", "a", "i", "n", "t">>), "graffiti")
                                                   \o PushIf(includes(textLower, <<"t", "i", "r", "e">>) \/ includes(textLower, <<"t", "y", "r", "e">>) \/ includes(textLower, <<"s", "l", "a", "s", "h">>), "tire_slashing")
                                                   \o PushIf(includes(textLower, <<"f", "i", "r", "e">>) \/ includes(textLower, <<"b", "u", "r", "n">>) \/ includes(textLower, <<"a", "r", "s", "o", "n">>), "arson")
                                                   \o PushIf(includes(textLower, <<"d", "e", "n", "t">>) \/ includes(textLower, <<"h", "i", "t">>) \/ includes(textLower, <<"s", "m", "a", "s", "h">>), "denting")
                                IN damageTypes

determineDamageType(content) == LET textLower == toLowerCase(content)
                                    damageTypes == PushIf(includes(textLower, <<"k", "e", "y">>) \/ includes(textLower, <<"s", "c", "r", "a", "t", "c", "h">>), "keying")
                                                   \o PushIf(includes(textLower, <<"w", "i", "n", "d", "o", "w">>) /\ (includes(textLower, <<"b", "r", "e", "a", "k">>) \/ includes(textLower, <<"b", "r", "o", "k", "e">>) \/ includes(textLower, <<"b", "r", "o", "k", "e", "n">>) \/ includes(textLower, <<"s", "m", "a", "s", "h">>)), "broken_windows")
                                                   \o PushIf(includes(textLower, <<"g", "r", "a", "f", "f", "i", "t", "i">>) \/ includes(textLower, <<"s", "p", "r", "a", "y">>) \/ includes(textLower, <<"p", "a", "i", "n", "t">>), "graffiti")
                                                   \o PushIf(includes(textLower, <<"t", "i", "r", "e">>) \/ includes(textLower, <<"t", "y", "r", "e">>) \/ includes(textLower, <<"s", "l", "a", "s", "h">>), "tire_slashing")
                                                   \o PushIf(includes(textLower, <<"f", "i", "r", "e">>) \/ includes(textLower, <<"b", "u", "r", "n">>) \/ includes(textLower, <<"a", "r", "s", "o", "n">>), "arson")
                                                   \o PushIf(includes(textLower, <<"d", "e", "n", "t">>) \/ includes(textLower, <<"h", "i", "t">>) \/ includes(textLower, <<"s", "m", "a", "s", "h">>), "denting")
                                IN IF Len(damageTypes) = 0 THEN <<"other_damage">> ELSE damageTypes

(***************************************************************************)
(* Posts offered to the pipeline                                           *)
(***************************************************************************)

\* the texts of the posts; a post's platform_id is its index
PostText == <<<<"W", "h", "i", "t", "e", " ", "T", "e", "s", "l", "a", " ", "M", "o", "d", "e", "l", " ", "3", " ", "k", "e", "y", "e", "d", " ", "i", "n", " ", "A", "u", "s", "t", "i", "n", ",", " ", "T", "X">>,
              <<"T", "e", "s", "l", "a", " ", "M", "o", "d", "e", "l", " ", "3", " ", "v", "a", "n", "d", "a", "l", "i", "z", "e", "d", " ", "i", "n", " ", "A", "u", "s", "t", "i", "n", ",", " ", "T", "X", ",", " ", "s", "c", "r", "a", "t", "c", "h", "e", "d", " ", "w", "i", "t", "h", " ", "k", "e", "y">>,
              <<"T", "e", "s", "l", "a", " ", "S", "u", "p", "e", "r", "c", "h", "a", "r", "g", "e", "r", " ", "s", "t", "a", "t", "i", "o", "n", " ", "s", "p", "r", "a", "y", " ", "p", "a", "i", "n", "t", "e", "d">>,
              <<"T", "e", "s", "l", "a", " ", "M", "o", "d", "e", "l", " ", "Y", " ", "k", "e", "y", "e", "d", " ", "i", "n", " ", "A", "u", "s", "t", "i", "n", ",", " ", "T", "X">>,
              <<"T", "e", "s", "l", "a", " ", "s", "t", "o", "r", "e", " ", "g", "r", "a", "f", "f", "i", "t", "i", " ", "i", "n", " ", "A", "u", "s", "t", "i", "n", ",", " ", "T", "X">>,
              <<"T", "e", "s", "l", "a", " ", "M", "o", "d", "e", "l", " ", "X", " ", "v", "a", "n", "d", "a", "l", "i", "z", "e", "d", " ", "i", "n", " ", "A", "u", "s", "t", "i", "n", ",", " ", "M", "N", ",", " ", "t", "i", "r", "e", "s", " ", "s", "l", "a", "s", "h", "e", "d">>,
              <<"T", "e", "s", "l", "a", " ", "M", "o", "d", "e", "l", " ", "S", " ", "v", "a", "n", "d", "a", "l", "i", "z", "e", "d", " ", "i", "n", " ", "D", "a", "l", "l", "a", "s", ",", " ", "T", "X">>,
              <<"T", "e", "s", "l", "a", " ", "w", "i", "n", "d", "o", "w", "s", " ", "s", "m", "a", "s", "h", "e", "d", " ", "a", "n", "d", " ", "b", "u", "r", "n", "e", "d", " ", "i", "n", " ", "A", "u", "s", "t", "i", "n", ",", " ", "T", "X">>,
              <<"T", "e", "s", "l", "a", " ", "M", "o", "d", "e", "l", " ", "S", " ", "k", "e", "y", "e", "d", " ", "i", "n", " ", "A", "u", "s", "t", "i", "n", ",", " ", "T", "X">>,
              <<"T", "e", "s", "l", "a", " ", "M", "o", "d", "e", "l", " ", "S", " ", "g", "r", "a", "f", "f", "i", "t", "i", " ", "i", "n", " ", "A", "u", "s", "t", "i", "n", ",", " ", "T", "X">>,
              <<"T", "e", "s", "l", "a", " ", "M", "o", "d", "e", "l", " ", "S", " ", "t", "i", "r", "e", "s", " ", "s", "l", "a", "s", "h", "e", "d", " ", "i", "n", " ", "A", "u", "s", "t", "i", "n", ",", " ", "T", "X">>,
              <<"T", "e", "s", "l", "a", " ", "M", "o", "d", "e", "l", " ", "3", " ", "k", "e", "y", "e", "d", " ", "i", "n", " ", "A", "u", "s", "t", "i", "n", ",", " ", "T", "X">>,
              <<"T", "e", "s", "l", "a", " ", "M", "o", "d", "e", "l", " ", "3", " ", "g", "r", "a", "f", "f", "i", "t", "i", " ", "i", "n", " ", "A", "u", "s", "t", "i", "n", ",", " ", "T", "X">>,
              <<"T", "e", "s", "l", "a", " ", "M", "o", "d", "e", "l", " ", "3", " ", "t", "i", "r", "e", "s", " ", "s", "l", "a", "s", "h", "e", "d", " ", "i", "n", " ", "A", "u", "s", "t", "i", "n", ",", " ", "T", "X">>,
              <<"T", "e", "s", "l", "a", " ", "M", "o", "d", "e", "l", " ", "X", " ", "k", "e", "y", "e", "d", " ", "i", "n", " ", "A", "u", "s", "t", "i", "n", ",", " ", "T", "X">>,
              <<"T", "e", "s", "l", "a", " ", "M", "o", "d", "e", "l", " ", "X", " ", "g", "r", "a", "f", "f", "i", "t", "i", " ", "i", "n", " ", "A", "u", "s", "t", "i", "n", ",", " ", "T", "X">>,
              <<"T", "e", "s", "l", "a", " ", "M", "o", "d", "e", "l", " ", "X", " ", "t", "i", "r", "e", "s", " ", "s", "l", "a", "s", "h", "e", "d", " ", "i", "n", " ", "A", "u", "s", "t", "i", "n", ",", " ", "T", "X">>,
              <<"T", "e", "s", "l", "a", " ", "M", "o", "d", "e", "l", " ", "Y", " ", "g", "r", "a", "f", "f", "i", "t", "i", " ", "i", "n", " ", "A", "u", "s", "t", "i", "n", ",", " ", "T", "X">>,
              <<"T", "e", "s", "l", "a", " ", "M", "o", "d", "e", "l", " ", "Y", " ", "t", "i", "r", "e", "s", " ", "s", "l", "a", "s", "h", "e", "d", " ", "i", "n", " ", "A", "u", "s", "t", "i", "n", ",", " ", "T", "X">>>>

PostIds == 1..Len(PostText)

\* the posts of the pipeline scenarios: the first six of the catalogue
ScenarioPosts == 1..6

\* the posts storeSocialMediaSource is called for on its own
StoredPosts == {1, 2}

\* the source record searchTwitter builds for a tweet: it carries no id
SourceOf(p) == [platform |-> "twitter", platform_id |-> p, id |-> 0, content |-> PostText[p]]

\* tweet.analysis, as analyzeTwitterSearchResults attaches it to a tweet
\* (computed once per post: the analysis is a function of the text alone)
Analysis == SubSeq([p \in PostIds |-> analyzeTextContent(PostText[p])], 1, Len(PostText))

(***************************************************************************)
(* Bounds of the exploration                                               *)
(***************************************************************************)

\* calls of the exported operations
MaxCalls == 3

\* advances of the clock
MaxTicks == 2

\* hours by which the clock advances between two calls
TickHours == {2, 24}

(***************************************************************************)
(* Repository state                                                        *)
(*                                                                         *)
(* A row's id is its position in its table: rows are only ever appended.   *)
(* created_at is the hour of the insert; rows inserted by successive       *)
(* statements are taken to be ordered by created_at as they were inserted. *)
(***************************************************************************)
VARIABLES cases, sources, updates, links, now, ticks, calls, results, last, cyc, media, procs

vars == <<cases, sources, updates, links, now, ticks, calls, results, last, cyc, media, procs>>

\* one unit of a similarity score: 1/1200
ScoreUnit == 1200

\* CHECK (relationship_type IN (...)) of related_cases
RelationshipTypes == {"same_location", "same_suspect", "same_method", "part_of_series", "other"}

\* the empty value is stored as it is
OrNull_Keep(x) == x

\* value || null
OrNull(x) == IF x = <<>> THEN Null ELSE x

\* mutant: the lookup filters platform_id by the id of the source object
ExistingSourceId_ById(srcs, source) == IF \E i \in 1..Len(srcs) : srcs[i].platform = source.platform /\ srcs[i].platform_id = source.id
                                       THEN CHOOSE i \in 1..Len(srcs) : srcs[i].platform = source.platform /\ srcs[i].platform_id = source.id
                                       ELSE 0

\* .eq('platform', ..).eq('platform_id', ..).single(): the id of the one
\* matching row, 0 (no data) when there is none
ExistingSourceId(srcs, source) == IF \E i \in 1..Len(srcs) : srcs[i].platform = source.platform /\ srcs[i].platform_id = source.platform_id
                                  THEN CHOOSE i \in 1..Len(srcs) : srcs[i].platform = source.platform /\ srcs[i].platform_id = source.platform_id
                                  ELSE 0

\* UNIQUE(platform, platform_id) of social_media_sources
SourceKeyStored(srcs, platform, platform_id) == \E i \in 1..Len(srcs) : srcs[i].platform = platform /\ srcs[i].platform_id = platform_id

\* insert into social_media_sources: the statement fails, and stores nothing,
\* when the pair is already stored
InsertSource(srcs, source) == IF SourceKeyStored(srcs, source.platform, source.platform_id)
                              THEN [error |-> TRUE, sources |-> srcs, id |-> 0]
                              ELSE [error |-> FALSE, sources |-> Append(srcs, [id |-> Len(srcs) + 1, platform |-> source.platform, platform_id |-> source.platform_id]), id |-> Len(srcs) + 1]

\* if (!sourceId): is the insert needed after the lookup
NeedsInsert(existingId) == existingId = 0

\* the new row replaces the newest stored row
createCaseUpdate_Replace(upds, update) == IF upds = <<>> THEN <<update>> ELSE [upds EXCEPT ![Len(upds)] = update]

createCaseUpdate(upds, update) == Append(upds, update)

linkSourceToCase(srcs, upds, source, caseId) == LET existingId == ExistingSourceId(srcs, source)
                                                    inserted == IF NeedsInsert(existingId) THEN InsertSource(srcs, source) ELSE [error |-> FALSE, sources |-> srcs, id |-> existingId]
                                                IN IF inserted.error
                                                   THEN [error |-> TRUE, sources |-> srcs, updates |-> upds, sourceId |-> 0]
                                                   ELSE [error |-> FALSE, sources |-> inserted.sources, sourceId |-> inserted.id,
                                                         updates |-> createCaseUpdate(upds, [case_id |-> caseId, source_id |-> inserted.id, update_type |-> "new_information", importance |-> 3])]

\* mutant: only the forward row is inserted
LinkRows_OneWay(caseId, relatedCaseId, relationshipType, relationshipStrength) == <<[case_id |-> caseId, related_case_id |-> relatedCaseId, relationship_type |-> relationshipType, relationship_strength |-> relationshipStrength]>>

\* the two rows linkRelatedCases inserts in one statement
LinkRows(caseId, relatedCaseId, relationshipType, relationshipStrength) == <<[case_id |-> caseId, related_case_id |-> relatedCaseId, relationship_type |-> relationshipType, relationship_strength |-> relationshipStrength],
                                                                            [case_id |-> relatedCaseId, related_case_id |-> caseId, relationship_type |-> relationshipType, relationship_strength |-> relationshipStrength]>>

\* the constraints of related_cases on a statement inserting rows: the CHECKs
\* on type and strength, the foreign keys, the primary key (two rows of one
\* statement with the same key, a case linked to itself, violate it too)
RowsAccepted(lnks, ncases, rows) == /\ \A i \in 1..Len(rows) : /\ rows[i].relationship_type \in RelationshipTypes
                                                                /\ rows[i].relationship_strength >= 0 /\ rows[i].relationship_strength <= ScoreUnit
                                                                /\ rows[i].case_id \in 1..ncases /\ rows[i].related_case_id \in 1..ncases
                                                                /\ ~\E l \in lnks : l.case_id = rows[i].case_id /\ l.related_case_id = rows[i].related_case_id
                                    /\ \A i, j \in 1..Len(rows) : i # j => (rows[i].case_id # rows[j].case_id \/ rows[i].related_case_id # rows[j].related_case_id)

\* the insert is one statement: all of its rows are stored or none; the
\* error the client returns is not inspected and nothing is thrown
linkRelatedCases(lnks, ncases, caseId, relatedCaseId, relationshipType, relationshipStrength) == LET rows == LinkRows(caseId, relatedCaseId, relationshipType, relationshipStrength)
                                                                                                 IN IF RowsAccepted(lnks, ncases, rows) THEN lnks \cup {rows[i] : i \in 1..Len(rows)} ELSE lnks

(***************************************************************************)
(* Deduplication engine                                                    *)
(***************************************************************************)

\* .limit(10)
CandidateLimit == 10

Reverse(s) == [i \in 1..Len(s) |-> s[Len(s) + 1 - i]]

\* the query ordered by created_at ascending: the ten oldest matches
QueryCandidates_Oldest(cs, city, type) == LET Matches(c) == c.location_city = city /\ c.target_type = type
                                              found == SelectSeq(cs, Matches)
                                          IN SubSeq(found, 1, IF Len(found) < CandidateLimit THEN Len(found) ELSE CandidateLimit)

\* select * from cases where location_city = city and target_type = type
\* order by created_at desc limit 10; a NULL location_city equals nothing
QueryCandidates(cs, city, type) == LET Matches(c) == c.location_city = city /\ c.target_type = type
                                       found == SelectSeq(Reverse(cs), Matches)
                                   IN SubSeq(found, 1, IF Len(found) < CandidateLimit THEN Len(found) ELSE CandidateLimit)

\* every tag counts as matching as soon as one does
MatchingDamageTypes_Any(damageType, caseDamageTypes) == IF \E i \in 1..Len(damageType), j \in 1..Len(caseDamageTypes) : caseDamageTypes[j] = damageType[i] THEN Len(damageType) ELSE 0

\* damageType.filter(type => caseDamageTypes.includes(type)).length
MatchingDamageTypes(damageType, caseDamageTypes) == Cardinality({i \in 1..Len(damageType) : \E j \in 1..Len(caseDamageTypes) : caseDamageTypes[j] = damageType[i]})

\* 0.2 * (1 - hoursDiff / 48) for hoursDiff < 48, in score units
TimeProximity(hoursDiff) == IF hoursDiff < 48 THEN 5 * (48 - hoursDiff) ELSE 0

\* the weighted sum of the map callback, in score units
SimilarityScore(case_, locationInfo, targetDetails, damageType, clock) == (IF case_.location_city = locationInfo.city
                                                                           THEN 360 + (IF case_.location_state = locationInfo.state THEN 120 ELSE 0)
                                                                           ELSE 0)
                                                                          + (IF case_.target_type = targetDetails.type
                                                                             THEN 240 + (IF case_.target_type = "vehicle" /\ case_.target_details.make = targetDetails.make /\ case_.target_details.model = targetDetails.model THEN 240 ELSE 0)
                                                                             ELSE 0)
                                                                          + (IF MatchingDamageTypes(damageType, case_.damage_type) > 0
                                                                             THEN (240 * MatchingDamageTypes(damageType, case_.damage_type)) \div Len(damageType)
                                                                             ELSE 0)
                                                                          + TimeProximity(clock - case_.created_at)

\* Array.prototype.sort with (a, b) => b.similarityScore - a.similarityScore:
\* descending by score, stable
SortByScore(scored) == LET Rank(i) == 1 + Cardinality({j \in 1..Len(scored) : scored[j].similarityScore > scored[i].similarityScore \/ (scored[j].similarityScore = scored[i].similarityScore /\ j < i)})
                       IN [k \in 1..Len(scored) |-> scored[CHOOSE i \in 1..Len(scored) : Rank(i) = k]]

findPotentialDuplicates(cs, locationInfo, targetDetails, damageType, clock) == LET found == QueryCandidates(cs, locationInfo.city, targetDetails.type)
                                                                               IN SortByScore([i \in 1..Len(found) |-> [case |-> found[i].id, similarityScore |-> SimilarityScore(found[i], locationInfo, targetDetails, damageType, clock)]])

\* mutant: the merge threshold is 0.95
IsVeryLikelyDuplicate_Strict(potentialDuplicates) == Len(potentialDuplicates) > 0 /\ potentialDuplicates[1].similarityScore > 1140

\* potentialDuplicates.length > 0 && potentialDuplicates[0].similarityScore > 0.85
IsVeryLikelyDuplicate(potentialDuplicates) == Len(potentialDuplicates) > 0 /\ potentialDuplicates[1].similarityScore > 1020

\* duplicate.similarityScore > 0.6
IsPossibleDuplicate(duplicate) == duplicate.similarityScore > 720

\* the loop over potentialDuplicates that links the new case, from entry i on
RECURSIVE LinkPossibleDuplicates(_, _, _, _, _)
LinkPossibleDuplicates(lnks, ncases, newCaseId, potentialDuplicates, i) == IF i > Len(potentialDuplicates) THEN lnks
                                                                           ELSE LinkPossibleDuplicates(IF IsPossibleDuplicate(potentialDuplicates[i])
                                                                                                       THEN linkRelatedCases(lnks, ncases, newCaseId, potentialDuplicates[i].case, "possible_duplicate", potentialDuplicates[i].similarityScore)
                                                                                                       ELSE lnks,
                                                                                                       ncases, newCaseId, potentialDuplicates, i + 1)

\* the row createCaseFromSocialMedia inserts into cases
NewCaseRow(id, targetType, targetDetails, locationInfo, damageType, clock) == [id |-> id, target_type |-> targetType, target_details |-> targetDetails,
                                                                               location_city |-> OrNull(locationInfo.city), location_state |-> OrNull(locationInfo.state),
                                                                               location_country |-> OrElse(locationInfo.country, <<"U", "S">>),
                                                                               status |-> "reported", damage_type |-> damageType, is_verified |-> FALSE, created_at |-> clock]

\* the locals createCaseFromSocialMedia derives from (source, analysis) before
\* it reads the repository (computed once per post: they are functions of the
\* post alone)
Classify(source, analysis) == [targetType |-> determineTargetType(source.content),
                               targetDetails |-> createTargetDetails(determineTargetType(source.content), analysis),
                               locationInfo |-> analysis.locationInfo,
                               damageType |-> determineDamageType(source.content)]

Classified == SubSeq([p \in PostIds |-> Classify(SourceOf(p), Analysis[p])], 1, Len(PostText))

(***************************************************************************)
(* Operations                                                              *)
(***************************************************************************)

RECURSIVE addMediaToCase(_, _, _, _, _)
\* addMediaToCase: one case_media row per item, from item `index` on; the
\* first item of the list is the primary one
addMediaToCase(rows, caseId, sourceId, mediaUrls, index) == IF index > Len(mediaUrls) THEN rows
                                                            ELSE addMediaToCase(Append(rows, [case_id |-> caseId, source_id |-> sourceId, url |-> mediaUrls[index].url,
                                                                                              media_type |-> IF mediaUrls[index].type = "video" THEN "video" ELSE "image",
                                                                                              is_primary |-> index = 1]),
                                                                                caseId, sourceId, mediaUrls, index + 1)

\* what the last call was given, computed and returned
NoCall == [op |-> "none"]

\* no monitoring cycle has been requested
NoCycle == [pc |-> "idle", invocations |-> 0, response |-> [status |-> 0]]

Init == /\ cases = <<>>
        /\ sources = <<>>
        /\ updates = <<>>
        /\ links = {}
        /\ now = 0
        /\ ticks = 0
        /\ calls = 0
        /\ results = <<>>
        /\ last = NoCall
        /\ cyc = NoCycle
        /\ media = <<>>
        /\ procs = <<>>

\* time passes between two calls
Tick(d) == /\ ticks < MaxTicks
           /\ now' = now + d
           /\ ticks' = ticks + 1
           /\ UNCHANGED <<cases, sources, updates, links, calls, results, last, media, procs>>

createCaseFromSocialMedia(p) == LET source == SourceOf(p)
                                    targetType == Classified[p].targetType
                                    targetDetails == Classified[p].targetDetails
                                    locationInfo == Classified[p].locationInfo
                                    damageType == Classified[p].damageType
                                    potentialDuplicates == findPotentialDuplicates(cases, locationInfo, targetDetails, damageType, now)
                                    called == [op |-> "createCaseFromSocialMedia", post |-> p, at |-> now, potentialDuplicates |-> potentialDuplicates,
                                               prevCases |-> Len(cases), prevSources |-> Len(sources), prevUpdates |-> Len(updates), prevLinks |-> links]
                                IN /\ calls' = calls + 1
                                   /\ UNCHANGED <<now, ticks, procs>>
                                   /\ IF IsVeryLikelyDuplicate(potentialDuplicates)
                                      THEN LET duplicateCase == potentialDuplicates[1].case
                                               linked == linkSourceToCase(sources, updates, source, duplicateCase)
                                               result == [caseId |-> duplicateCase, isNewCase |-> FALSE, isDuplicate |-> TRUE]
                                           IN /\ cases' = cases
                                              /\ links' = links
                                              /\ sources' = linked.sources
                                              /\ IF linked.error
                                                 THEN /\ updates' = linked.updates
                                                      /\ results' = results
                                                      /\ last' = called @@ [threw |-> TRUE, sourceId |-> 0]
                                                 ELSE /\ updates' = createCaseUpdate(linked.updates, [case_id |-> duplicateCase, source_id |-> source.id, update_type |-> "new_information", importance |-> 2])
                                                      /\ results' = Append(results, [post |-> p] @@ result)
                                                      /\ last' = called @@ [threw |-> FALSE, sourceId |-> linked.sourceId] @@ result
                                      ELSE LET newCase == NewCaseRow(Len(cases) + 1, targetType, targetDetails, locationInfo, damageType, now)
                                               linked == linkSourceToCase(sources, updates, source, newCase.id)
                                               result == [caseId |-> newCase.id, isNewCase |-> TRUE, isDuplicate |-> FALSE]
                                           IN /\ cases' = Append(cases, newCase)
                                              /\ sources' = linked.sources
                                              /\ updates' = linked.updates
                                              /\ IF linked.error
                                                 THEN /\ links' = links
                                                      /\ results' = results
                                                      /\ last' = called @@ [threw |-> TRUE, sourceId |-> 0]
                                                 ELSE /\ links' = LinkPossibleDuplicates(links, Len(cases) + 1, newCase.id, potentialDuplicates, 1)
                                                      /\ results' = Append(results, [post |-> p] @@ result)
                                                      /\ last' = called @@ [threw |-> FALSE, sourceId |-> linked.sourceId] @@ result
                                   /\ media' = IF last'.threw \/ "mediaUrls" \notin DOMAIN Analysis[p] THEN media ELSE addMediaToCase(media, last'.caseId, source.id, Analysis[p].mediaUrls, 1)

storeSocialMediaSource(p) == LET source == SourceOf(p)
                                 existingId == ExistingSourceId(sources, source)
                                 inserted == IF existingId # 0 THEN [error |-> FALSE, sources |-> sources, id |-> existingId] ELSE InsertSource(sources, source)
                             IN /\ calls < MaxCalls
                                /\ calls' = calls + 1
                                /\ sources' = inserted.sources
                                /\ last' = [op |-> "storeSocialMediaSource", post |-> p, at |-> now, prevSources |-> Len(sources), threw |-> inserted.error, sourceId |-> inserted.id]
                                /\ UNCHANGED <<cases, updates, links, now, ticks, results, media, procs>>

Next == \/ \E p \in ScenarioPosts : calls < MaxCalls /\ createCaseFromSocialMedia(p) /\ UNCHANGED cyc
        \/ \E p \in StoredPosts : storeSocialMediaSource(p) /\ UNCHANGED cyc
        \/ \E d \in TickHours : Tick(d) /\ UNCHANGED cyc

Spec == Init /\ [][Next]_vars

(***************************************************************************)
(* linkRelatedCases as an operation of its own.  createCaseFromSocialMedia *)
(* is its only caller and always passes "possible_duplicate"; here it is   *)
(* applied to every pair of stored cases, with types the schema accepts    *)
(* and types it rejects, strengths inside and outside [0,1].               *)
(***************************************************************************)

\* cases stored before links are tried
MaxLinkedCases == 2

LinkTypes == {"possible_duplicate", "same_location"}

LinkStrengths == {780, 1440}

seedCase(p) == Len(cases) < MaxLinkedCases /\ calls < MaxCalls /\ createCaseFromSocialMedia(p)

linkRelatedCasesCall(a, b, type, strength) == /\ links' = linkRelatedCases(links, Len(cases), a, b, type, strength)
                                              /\ UNCHANGED <<cases, sources, updates, now, ticks, calls, results, last, media, procs>>

NextLink == \/ \E p \in ScenarioPosts : seedCase(p) /\ UNCHANGED cyc
            \/ \E a, b \in 1..(Len(cases) + 1), type \in LinkTypes, strength \in LinkStrengths : linkRelatedCasesCall(a, b, type, strength) /\ UNCHANGED cyc

SpecLink == Init /\ [][NextLink]_vars

(***************************************************************************)
(* Properties                                                              *)
(***************************************************************************)

LastCreate == last.op = "createCaseFromSocialMedia"

\* the entries of the last call's candidate list with the maximal score
BestCandidates == {i \in 1..Len(last.potentialDuplicates) : \A j \in 1..Len(last.potentialDuplicates) : last.potentialDuplicates[i].similarityScore >= last.potentialDuplicates[j].similarityScore}

\* the highest-scoring candidate of the last call scores more than 0.85
TopAboveMerge == LastCreate /\ \E i \in BestCandidates : last.potentialDuplicates[i].similarityScore > 1020

\* an update appended by the last call to case c that references the stored
\* source of the post the call was given
UpdateAppendedFor(c) == \E u \in (last.prevUpdates + 1)..Len(updates) : /\ updates[u].case_id = c
                                                                       /\ updates[u].source_id \in 1..Len(sources)
                                                                       /\ sources[updates[u].source_id].platform = "twitter"
                                                                       /\ sources[updates[u].source_id].platform_id = last.post

\* C1: a call whose highest-scoring candidate scores more than 0.85 creates no
\* case, appends to that candidate an update referencing the stored source,
\* and returns {caseId = that case, isNewCase = false, isDuplicate = true}
C1_MergeIntoTopCandidate == TopAboveMerge => /\ ~last.threw
                                             /\ Len(cases) = last.prevCases
                                             /\ \E i \in BestCandidates : last.caseId = last.potentialDuplicates[i].case
                                             /\ UpdateAppendedFor(last.caseId)
                                             /\ last.isNewCase = FALSE /\ last.isDuplicate = TRUE

\* a merge chosen among at least two candidates
C1_Witness == TopAboveMerge /\ ~last.threw /\ last.isDuplicate /\ Len(last.potentialDuplicates) >= 2 /\ UpdateAppendedFor(last.caseId)

LinkStored(a, b, type, strength) == [case_id |-> a, related_case_id |-> b, relationship_type |-> type, relationship_strength |-> strength] \in links

\* C2 as stated: a call with no candidate above 0.85 creates exactly one case
\* ('reported', unverified), returns {isNewCase = true, isDuplicate = false},
\* and afterwards a "possible_duplicate" link with strength = score is stored
\* in both directions for every candidate with 0.6 < score <= 0.85, and none
\* for a candidate with score <= 0.6
C2_NewCaseLinksPossibleDuplicates == (LastCreate /\ ~TopAboveMerge) => /\ ~last.threw
                                                                       /\ Len(cases) = last.prevCases + 1
                                                                       /\ cases[Len(cases)].status = "reported" /\ cases[Len(cases)].is_verified = FALSE
                                                                       /\ last.isNewCase = TRUE /\ last.isDuplicate = FALSE /\ last.caseId = Len(cases)
                                                                       /\ \A i \in 1..Len(last.potentialDuplicates) : LET d == last.potentialDuplicates[i]
                                                                                                                      IN IF d.similarityScore > 720
                                                                                                                         THEN LinkStored(last.caseId, d.case, "possible_duplicate", d.similarityScore) /\ LinkStored(d.case, last.caseId, "possible_duplicate", d.similarityScore)
                                                                                                                         ELSE ~\E l \in links : {l.case_id, l.related_case_id} = {last.caseId, d.case}

\* C3 as stated: for every source at most one call returns isNewCase = true,
\* and a later pass of the same source returns isDuplicate = true
C3_SameSourceCreatesOneCase == \A i, j \in 1..Len(results) : (i < j /\ results[i].post = results[j].post) => (results[j].isNewCase = FALSE /\ results[j].isDuplicate = TRUE)

\* the post of the last call was stored before the call, as row i
StoredBefore(i) == /\ last.op \in {"createCaseFromSocialMedia", "storeSocialMediaSource"}
                   /\ i \in 1..last.prevSources
                   /\ sources[i].platform = "twitter" /\ sources[i].platform_id = last.post

\* C4: the sources hold at most one row per (platform, platform_id), and a call
\* for a pair already stored inserts no source and reuses the stored row's id
C4_OneSourcePerPlatformId == /\ \A i, j \in 1..Len(sources) : (sources[i].platform = sources[j].platform /\ sources[i].platform_id = sources[j].platform_id) => i = j
                             /\ \A i \in 1..Len(sources) : StoredBefore(i) => /\ ~last.threw
                                                                             /\ Len(sources) = last.prevSources
                                                                             /\ last.sourceId = i
                                                                             /\ (LastCreate => UpdateAppendedFor(last.caseId))

\* a createCaseFromSocialMedia call for a post whose source was already stored
C4_Witness == LastCreate /\ \E i \in 1..Len(sources) : StoredBefore(i) /\ last.sourceId = i /\ Len(sources) = last.prevSources

\* the derived fields of the last call's post
LastPost == Classified[last.post]

\* stored case c has the location, target type, vehicle model and damage tags
\* derived from the last call's post, and is 0 hours older than the call
ExactDuplicateOf(c) == /\ LastCreate
                       /\ c \in 1..last.prevCases
                       /\ cases[c].created_at = last.at
                       /\ cases[c].location_city = OrNull(LastPost.locationInfo.city)
                       /\ cases[c].location_state = OrNull(LastPost.locationInfo.state)
                       /\ cases[c].target_type = LastPost.targetType
                       /\ (LastPost.targetType = "vehicle" => cases[c].target_details.model = LastPost.targetDetails.model)
                       /\ cases[c].damage_type = LastPost.damageType

\* C5 as stated: a post identical in location, target type, vehicle model and
\* damage tags to a stored case 0 hours old scores 0.3+0.1+0.2+0.2+0.2+0.2
\* against it, which is >= 0.85, and is merged, whatever the target type and
\* the location (an empty city included)
C5_ExactDuplicateMerged == \A c \in 1..Len(cases) : ExactDuplicateOf(c) => /\ \E i \in 1..Len(last.potentialDuplicates) : /\ last.potentialDuplicates[i].case = c
                                                                                                                         /\ last.potentialDuplicates[i].similarityScore = 360 + 120 + 240 + 240 + 240 + 240
                                                                                                                         /\ last.potentialDuplicates[i].similarityScore >= 1020
                                                                           /\ ~last.threw
                                                                           /\ last.isNewCase = FALSE
                                                                           /\ Len(cases) = last.prevCases

\* post 1 created case 1 at T0, and the last call processed post 2 at T0 + 2h
\* with case 1 the only case stored
SecondPostScenario == /\ LastCreate
                      /\ last.post = 2
                      /\ last.prevCases = 1
                      /\ Len(results) >= 1 /\ results[1].post = 1 /\ results[1].isNewCase /\ results[1].caseId = 1
                      /\ last.at = cases[1].created_at + 2

\* C6: after "White Tesla Model 3 keyed in Austin, TX" created a case at T0,
\* "Tesla Model 3 vandalized in Austin, TX, scratched with key" at T0 + 2h
\* scores more than 0.85 against it, appends an update to it, returns
\* isNewCase = false and leaves one case
C6_SecondPostMerged == SecondPostScenario => /\ \E i \in 1..Len(last.potentialDuplicates) : last.potentialDuplicates[i].case = 1 /\ last.potentialDuplicates[i].similarityScore > 1020
                                             /\ ~last.threw
                                             /\ UpdateAppendedFor(1)
                                             /\ last.caseId = 1
                                             /\ last.isNewCase = FALSE
                                             /\ Len(cases) = 1

\* the second post has been processed two hours after the first and merged
C6_Witness == SecondPostScenario /\ ~last.threw /\ last.isNewCase = FALSE /\ last.caseId = 1 /\ Len(updates) = last.prevUpdates + 2

\* C7 as stated: "White Tesla Model 3 keyed in Austin, TX" against an empty
\* repository creates a case with target_type 'vehicle', model "Model 3",
\* location_city "Austin" and damage_type exactly ["keying"]
C7_FirstPostCase == (LastCreate /\ last.post = 1 /\ last.prevCases = 0) => /\ ~last.threw
                                                                           /\ last.isNewCase = TRUE
                                                                           /\ cases[last.caseId].target_type = "vehicle"
                                                                           /\ cases[last.caseId].target_details.model = <<"M", "o", "d", "e", "l", " ", "3">>
                                                                           /\ cases[last.caseId].location_city = <<"A", "u", "s", "t", "i", "n">>
                                                                           /\ cases[last.caseId].damage_type = <<"keying">>

\* C8 as stated: "Tesla Supercharger station spray painted", with the analysis
\* analyzeTextContent produces for it, creates a case with target_type
\* 'building', building_type "supercharger" and damage_type ["graffiti"]
C8_SuperchargerCase == (LastCreate /\ last.post = 3) => /\ ~last.threw
                                                        /\ last.isNewCase = TRUE
                                                        /\ cases[last.caseId].target_type = "building"
                                                        /\ cases[last.caseId].target_details.building_type = <<"s", "u", "p", "e", "r", "c", "h", "a", "r", "g", "e", "r">>
                                                        /\ cases[last.caseId].damage_type = <<"graffiti">>

\* C9: every stored link has its reverse stored with the same
\* relationship_type and the same strength
C9_LinksSymmetric == \A l \in links : LinkStored(l.related_case_id, l.case_id, l.relationship_type, l.relationship_strength)

\* a link between two different cases is stored
C9_Witness == \E l \in links : l.case_id # l.related_case_id /\ l.case_id \in 1..Len(cases) /\ l.related_case_id \in 1..Len(cases)

\* C10 as stated: every score findPotentialDuplicates computes is in [0,1],
\* and so is every strength passed to linkRelatedCases
C10_ScoresInUnitInterval == LastCreate => \A i \in 1..Len(last.potentialDuplicates) : /\ last.potentialDuplicates[i].similarityScore >= 0
                                                                                      /\ last.potentialDuplicates[i].similarityScore <= ScoreUnit

(***************************************************************************)
(* Damage classification: posts with no, one and several damage keywords.  *)
(***************************************************************************)

DamagePosts == {1, 3, 5, 6, 7, 8}

NextDamage == \E p \in DamagePosts : calls < MaxCalls /\ createCaseFromSocialMedia(p) /\ UNCHANGED cyc

SpecDamage == Init /\ [][NextDamage]_vars

\* the text mentions one of the words
Mentions(text, words) == \E w \in words : includes(toLowerCase(text), w)

\* one of the six keyword categories matches the text
DamageCategoryMatches(text) == \/ Mentions(text, {<<"k", "e", "y">>, <<"s", "c", "r", "a", "t", "c", "h">>})
                               \/ Mentions(text, {<<"w", "i", "n", "d", "o", "w">>}) /\ Mentions(text, {<<"b", "r", "e", "a", "k">>, <<"b", "r", "o", "k", "e">>, <<"b", "r", "o", "k", "e", "n">>, <<"s", "m", "a", "s", "h">>})
                               \/ Mentions(text, {<<"g", "r", "a", "f", "f", "i", "t", "i">>, <<"s", "p", "r", "a", "y">>, <<"p", "a", "i", "n", "t">>})
                               \/ Mentions(text, {<<"t", "i", "r", "e">>, <<"t", "y", "r", "e">>, <<"s", "l", "a", "s", "h">>})
                               \/ Mentions(text, {<<"f", "i", "r", "e">>, <<"b", "u", "r", "n">>, <<"a", "r", "s", "o", "n">>})
                               \/ Mentions(text, {<<"d", "e", "n", "t">>, <<"h", "i", "t">>, <<"s", "m", "a", "s", "h">>})

\* the calls that created a case
Creations == {i \in 1..Len(results) : results[i].isNewCase}

\* C11: every created case has a non-empty damage_type, and it is exactly
\* <<"other_damage">> iff none of the six keyword categories matches the
\* text of the post it was created from
C11_DamageTypeNeverEmpty == /\ \A c \in 1..Len(cases) : Len(cases[c].damage_type) > 0
                            /\ \A i \in Creations : (cases[results[i].caseId].damage_type = <<"other_damage">>) <=> ~DamageCategoryMatches(PostText[results[i].post])

C11_Witness == /\ \E i \in Creations : cases[results[i].caseId].damage_type = <<"other_damage">>
               /\ \E i \in Creations : Len(cases[results[i].caseId].damage_type) > 1

(***************************************************************************)
(* Repository operations that fail.  A failed operation returns an error   *)
(* and leaves its table as it was; failAt names the operation that fails   *)
(* when the call reaches it.  analyzeTextContent attaches no mediaUrls, so *)
(* the media insert is not reached by the pipeline.                        *)
(***************************************************************************)

FailPoints == {"candidate_query", "case_insert", "source_lookup", "source_insert", "update_insert", "second_update_insert", "link_insert"}

FailPosts == {1, 2, 6}

\* findPotentialDuplicates with a failing query: the catch block returns []
findPotentialDuplicatesFailing(cs, locationInfo, targetDetails, damageType, clock, failAt) == IF failAt = "candidate_query" THEN <<>> ELSE findPotentialDuplicates(cs, locationInfo, targetDetails, damageType, clock)

\* the source insert of linkSourceToCase, made when the lookup found nothing
InsertOrFail(srcs, source, existingId, failAt) == IF NeedsInsert(existingId)
                                                  THEN IF failAt = "source_insert" THEN [error |-> TRUE, sources |-> srcs, id |-> 0] ELSE InsertSource(srcs, source)
                                                  ELSE [error |-> FALSE, sources |-> srcs, id |-> existingId]

\* linkSourceToCase undoing the source insert when the update insert fails
LinkOutcome_RollsBack(srcs, upds, caseId, failAt, inserted, lookupFailed) == IF inserted.error
                                                                             THEN [error |-> TRUE, sources |-> srcs, updates |-> upds, sourceId |-> 0, failed |-> IF failAt = "source_insert" THEN "source_insert" ELSE lookupFailed]
                                                                             ELSE IF failAt = "update_insert"
                                                                                  THEN [error |-> TRUE, sources |-> srcs, updates |-> upds, sourceId |-> 0, failed |-> "update_insert"]
                                                                                  ELSE [error |-> FALSE, sources |-> inserted.sources, sourceId |-> inserted.id, failed |-> lookupFailed,
                                                                                        updates |-> createCaseUpdate(upds, [case_id |-> caseId, source_id |-> inserted.id, update_type |-> "new_information", importance |-> 3])]

\* what linkSourceToCase does with the outcome of the lookup and the insert
LinkOutcome(srcs, upds, caseId, failAt, inserted, lookupFailed) == IF inserted.error
                                                                   THEN [error |-> TRUE, sources |-> srcs, updates |-> upds, sourceId |-> 0, failed |-> IF failAt = "source_insert" THEN "source_insert" ELSE lookupFailed]
                                                                   ELSE IF failAt = "update_insert"
                                                                        THEN [error |-> TRUE, sources |-> inserted.sources, updates |-> upds, sourceId |-> 0, failed |-> "update_insert"]
                                                                        ELSE [error |-> FALSE, sources |-> inserted.sources, sourceId |-> inserted.id, failed |-> lookupFailed,
                                                                              updates |-> createCaseUpdate(upds, [case_id |-> caseId, source_id |-> inserted.id, update_type |-> "new_information", importance |-> 3])]

\* linkSourceToCase with a failing lookup, source insert or update insert:
\* the error of the lookup is not read, the source is taken to be absent
linkSourceToCaseFailing(srcs, upds, source, caseId, failAt) == LinkOutcome(srcs, upds, caseId, failAt,
                                                                           InsertOrFail(srcs, source, IF failAt = "source_lookup" THEN 0 ELSE ExistingSourceId(srcs, source), failAt),
                                                                           IF failAt = "source_lookup" THEN "source_lookup" ELSE "none")

\* the candidates linkRelatedCases is called for
LinkCandidates(potentialDuplicates) == {i \in 1..Len(potentialDuplicates) : IsPossibleDuplicate(potentialDuplicates[i])}

\* what a call was given and found before it wrote anything
CalledWith(p, potentialDuplicates) == [op |-> "createCaseFromSocialMedia", post |-> p, at |-> now, potentialDuplicates |-> potentialDuplicates, prevResults |-> Len(results),
                                       prevCases |-> Len(cases), prevSources |-> Len(sources), prevUpdates |-> Len(updates), prevLinks |-> links]

\* the merge branch, given the outcome of linkSourceToCase
FailingMerge(p, failAt, called, linked, result) == /\ cases' = cases
                                                   /\ links' = links
                                                   /\ sources' = linked.sources
                                                   /\ IF linked.error \/ failAt = "second_update_insert"
                                                      THEN /\ updates' = linked.updates
                                                           /\ results' = results
                                                           /\ last' = called @@ [threw |-> TRUE, sourceId |-> linked.sourceId, failed |-> IF linked.error THEN linked.failed ELSE "second_update_insert"]
                                                      ELSE /\ updates' = createCaseUpdate(linked.updates, [case_id |-> result.caseId, source_id |-> SourceOf(p).id, update_type |-> "new_information", importance |-> 2])
                                                           /\ results' = Append(results, [post |-> p] @@ result)
                                                           /\ last' = called @@ [threw |-> FALSE, sourceId |-> linked.sourceId, failed |-> linked.failed] @@ result

\* the branch that creates a case, given the new row and the outcome of linkSourceToCase
FailingCreate(p, failAt, called, newCase, linked, result, queryFailed) == /\ cases' = Append(cases, newCase)
                                                                          /\ sources' = linked.sources
                                                                          /\ updates' = linked.updates
                                                                          /\ IF linked.error
                                                                             THEN /\ links' = links
                                                                                  /\ results' = results
                                                                                  /\ last' = called @@ [threw |-> TRUE, sourceId |-> 0, failed |-> linked.failed]
                                                                             ELSE /\ links' = IF failAt = "link_insert" THEN links ELSE LinkPossibleDuplicates(links, Len(cases) + 1, newCase.id, called.potentialDuplicates, 1)
                                                                                  /\ results' = Append(results, [post |-> p] @@ result)
                                                                                  /\ last' = called @@ [threw |-> FALSE, sourceId |-> linked.sourceId] @@ result
                                                                                             @@ [failed |-> IF failAt = "link_insert" /\ LinkCandidates(called.potentialDuplicates) # {} THEN "link_insert"
                                                                                                            ELSE IF linked.failed # "none" THEN linked.failed ELSE queryFailed]

\* the branches of createCaseFromSocialMedia, given the candidate list
FailingCall(p, failAt, potentialDuplicates) == IF IsVeryLikelyDuplicate(potentialDuplicates)
                                               THEN FailingMerge(p, failAt, CalledWith(p, potentialDuplicates), linkSourceToCaseFailing(sources, updates, SourceOf(p), potentialDuplicates[1].case, failAt),
                                                                 [caseId |-> potentialDuplicates[1].case, isNewCase |-> FALSE, isDuplicate |-> TRUE])
                                               ELSE IF failAt = "case_insert"
                                                    THEN /\ UNCHANGED <<cases, sources, updates, links, results>>
                                                         /\ last' = CalledWith(p, potentialDuplicates) @@ [threw |-> TRUE, sourceId |-> 0, failed |-> "case_insert"]
                                                    ELSE FailingCreate(p, failAt, CalledWith(p, potentialDuplicates),
                                                                       NewCaseRow(Len(cases) + 1, Classified[p].targetType, Classified[p].targetDetails, Classified[p].locationInfo, Classified[p].damageType, now),
                                                                       linkSourceToCaseFailing(sources, updates, SourceOf(p), Len(cases) + 1, failAt),
                                                                       [caseId |-> Len(cases) + 1, isNewCase |-> TRUE, isDuplicate |-> FALSE],
                                                                       IF failAt = "candidate_query" THEN "candidate_query" ELSE "none")

createCaseFromSocialMediaFailing(p, failAt) == /\ calls' = calls + 1
                                               /\ UNCHANGED <<now, ticks, procs>>
                                               /\ FailingCall(p, failAt, findPotentialDuplicatesFailing(cases, Classified[p].locationInfo, Classified[p].targetDetails, Classified[p].damageType, now, failAt))
                                               /\ media' = IF last'.threw \/ "mediaUrls" \notin DOMAIN Analysis[p] THEN media ELSE addMediaToCase(media, last'.caseId, SourceOf(p).id, Analysis[p].mediaUrls, 1)

NextFail == \/ \E p \in FailPosts : calls < MaxCalls /\ createCaseFromSocialMedia(p) /\ UNCHANGED cyc
            \/ \E p \in FailPosts, failAt \in FailPoints : calls < MaxCalls /\ createCaseFromSocialMediaFailing(p, failAt) /\ UNCHANGED cyc

SpecFail == Init /\ [][NextFail]_vars

\* the last call was one in which a repository operation failed
LastCallFailed == LastCreate /\ "failed" \in DOMAIN last /\ last.failed # "none"

\* C12: when a repository operation fails during createCaseFromSocialMedia,
\* the call ends with the error propagated and returns no result
C12_FailurePropagates == LastCallFailed => last.threw /\ Len(results) = last.prevResults

(***************************************************************************)
(* The monitoring cycle behind the trigger endpoint.                       *)
(*                                                                         *)
(* A GET runs runFullMonitoringCycle, which runs runTwitterMonitoringCycle:*)
(* one searchTwitter per active keyword, per active account and for the    *)
(* hashtag.  What Twitter answers to a search is an input: a list of posts *)
(* of the catalogue, or a failure.  The stand-in simulateTwitterSearch     *)
(* always answers with no post.  The pause after a keyword or account      *)
(* search changes no state and is part of the step that ends the search.   *)
(***************************************************************************)

\* active keywords and accounts the monitoring tables may hold
MaxKeywords == 1

MaxAccounts == 1

\* what a search may answer
SearchResponses == {<<>>, <<1, 3>>, <<2>>}

\* messages of the errors a search may throw
ErrorMessages == {"", "Rate limit exceeded"}

RECURSIVE Queries(_, _)
\* n queries of one kind
Queries(kind, n) == IF n = 0 THEN <<>> ELSE Append(Queries(kind, n - 1), <<kind, n>>)

\* the searches of one cycle, in the order runTwitterMonitoringCycle makes them
SearchPlan(keywords, accounts) == Queries("keyword", keywords) \o Queries("account", accounts) \o << <<"hashtag", 1>> >>

\* the relevant tweets of a response, as analyzeTwitterSearchResults selects them
IsRelevantPost(p) == Analysis[p].isRelevant

relevantTweets(response) == SelectSeq(response, IsRelevantPost)

\* processedCases.filter(c => c.isDuplicate).length
CountNew_Duplicates(processedCases) == Len(SelectSeq(processedCases, LAMBDA c : c.isDuplicate))

\* processedCases.filter(c => c.isNewCase).length
CountNew(processedCases) == Len(SelectSeq(processedCases, LAMBDA c : c.isNewCase))

\* processedCases.filter(c => !c.isNewCase).length
CountUpdated(processedCases) == Len(SelectSeq(processedCases, LAMBDA c : ~c.isNewCase))

RECURSIVE SumOf(_, _)
\* twitterResults.reduce((sum, result) => sum + result[field], 0)
SumOf(twitterResults, field) == IF twitterResults = <<>> THEN 0 ELSE twitterResults[1][field] + SumOf(Tail(twitterResults), field)

\* the body the endpoint answers with when the cycle throws, as a response with that status
ErrorResponse_Ok(message) == [status |-> 200, body |-> [success |-> FALSE, message |-> "Failed to run monitoring cycle", error |-> IF message = "" THEN "Unknown error" ELSE message]]

\* the answer of the endpoint when the cycle throws
ErrorResponse(message) == [status |-> 500, body |-> [success |-> FALSE, message |-> "Failed to run monitoring cycle", error |-> IF message = "" THEN "Unknown error" ELSE message]]

\* the answer of the endpoint when the cycle returns
OkResponse(cycleResults, clock) == [status |-> 200, body |-> [success |-> TRUE, message |-> "Monitoring cycle completed successfully",
                                                               results |-> [newCases |-> cycleResults.totalNewCases, updatedCases |-> cycleResults.totalUpdatedCases,
                                                                            processingTime |-> cycleResults.processingTime, timestamp |-> clock]]]

\* GET /api/run-monitoring: the handler calls runFullMonitoringCycle, which
\* reads the active keywords and accounts and starts with the first search
GET(keywords, accounts) == /\ cyc.pc = "idle"
                           /\ cyc' = [pc |-> "searching", invocations |-> 1, response |-> [status |-> 0], startTime |-> now, firstResult |-> Len(results),
                                      plan |-> SearchPlan(keywords, accounts), queue |-> SearchPlan(keywords, accounts), searched |-> <<>>, failedQuery |-> <<>>,
                                      twitterResults |-> <<>>, error |-> "", query |-> <<>>, fetched |-> <<>>, pending |-> <<>>, processedCases |-> <<>>]
                           /\ UNCHANGED <<cases, sources, updates, links, now, ticks, calls, results, last, media, procs>>

\* searchTwitter(query) up to the loop over the relevant tweets
searchTwitter(response) == /\ cyc.pc = "searching"
                           /\ cyc.queue # <<>>
                           /\ cyc' = [cyc EXCEPT !.pc = "processing", !.searched = Append(@, Head(cyc.queue)), !.query = Head(cyc.queue),
                                                 !.fetched = response, !.pending = relevantTweets(response), !.processedCases = <<>>]
                           /\ UNCHANGED <<cases, sources, updates, links, now, ticks, calls, results, last, media, procs>>

\* searchTwitter(query) when the search itself throws: nothing between the
\* search and the endpoint catches the error
searchTwitterThrows(message) == /\ cyc.pc = "searching"
                                /\ cyc.queue # <<>>
                                /\ cyc' = [cyc EXCEPT !.pc = "threw", !.searched = Append(@, Head(cyc.queue)), !.failedQuery = Head(cyc.queue), !.error = message]
                                /\ UNCHANGED <<cases, sources, updates, links, now, ticks, calls, results, last, media, procs>>

\* one pass of the loop of searchTwitter over the relevant tweets
processTweet == /\ cyc.pc = "processing"
                /\ cyc.pending # <<>>
                /\ calls < MaxCalls
                /\ createCaseFromSocialMedia(Head(cyc.pending))
                /\ cyc' = IF last'.threw
                          THEN [cyc EXCEPT !.pc = "threw", !.failedQuery = cyc.query, !.error = "insert failed"]
                          ELSE [cyc EXCEPT !.pending = Tail(@), !.processedCases = Append(@, [isNewCase |-> last'.isNewCase, isDuplicate |-> last'.isDuplicate, caseId |-> last'.caseId])]

\* the end of searchTwitter: the MonitoringResult is pushed onto results
finishSearch == /\ cyc.pc = "processing"
                /\ cyc.pending = <<>>
                /\ cyc' = [cyc EXCEPT !.pc = "searching", !.queue = Tail(@),
                                      !.twitterResults = Append(@, [query |-> cyc.query, fetched |-> cyc.fetched, newPosts |-> Len(cyc.fetched), relevantPosts |-> Len(relevantTweets(cyc.fetched)),
                                                                    newCases |-> CountNew(cyc.processedCases), updatedCases |-> CountUpdated(cyc.processedCases)])]
                /\ UNCHANGED <<cases, sources, updates, links, now, ticks, calls, results, last, media, procs>>

\* the end of runFullMonitoringCycle and the answer of the endpoint
respond == /\ cyc.pc = "searching"
           /\ cyc.queue = <<>>
           /\ cyc' = [cyc EXCEPT !.pc = "idle", !.response = OkResponse([twitter |-> cyc.twitterResults, totalNewCases |-> SumOf(cyc.twitterResults, "newCases"),
                                                                        totalUpdatedCases |-> SumOf(cyc.twitterResults, "updatedCases"), processingTime |-> now - cyc.startTime], now)]
           /\ UNCHANGED <<cases, sources, updates, links, now, ticks, calls, results, last, media, procs>>

\* the catch block of the endpoint
respondError == /\ cyc.pc = "threw"
                /\ cyc' = [cyc EXCEPT !.pc = "idle", !.response = ErrorResponse(cyc.error)]
                /\ UNCHANGED <<cases, sources, updates, links, now, ticks, calls, results, last, media, procs>>

NextCycle == \/ \E keywords \in 0..MaxKeywords, accounts \in 0..MaxAccounts : GET(keywords, accounts)
             \/ \E response \in SearchResponses : searchTwitter(response)
             \/ \E message \in ErrorMessages : searchTwitterThrows(message)
             \/ processTweet
             \/ finishSearch
             \/ respond
             \/ respondError

SpecCycle == Init /\ [][NextCycle]_vars

\* the endpoint has answered the last request
Answered == cyc.pc = "idle" /\ cyc.response.status # 0

\* C13: a failed search aborts only that item: once the request is answered,
\* every search of the plan has been made, each once
C13_FailedSearchSkipsOnlyItself == Answered /\ cyc.failedQuery # <<>> => cyc.searched = cyc.plan

\* the calls of createCaseFromSocialMedia made since the last GET
CycleCalls == SubSeq(results, cyc.firstResult + 1, Len(results))

RECURSIVE RelevantFetched(_)
\* the relevant posts of the answers to the finished searches, in order
RelevantFetched(twitterResults) == IF twitterResults = <<>> THEN <<>>
                                   ELSE SelectSeq(twitterResults[1].fetched, LAMBDA p : Analysis[p].relevanceScore > RELEVANCE_THRESHOLD) \o RelevantFetched(Tail(twitterResults))

\* the cycle of the last request returned
CycleReturned == Answered /\ cyc.response.status = 200

\* C14: in a cycle that returns, createCaseFromSocialMedia is called once
\* for each relevant post of each search, in order; the totals are the
\* numbers of calls that returned isNewCase = true and isNewCase = false;
\* for each search newCases + updatedCases = relevantPosts
C14_OneCallPerRelevantPost == CycleReturned => /\ [i \in 1..Len(CycleCalls) |-> CycleCalls[i].post] = RelevantFetched(cyc.twitterResults)
                                               /\ cyc.response.body.results.newCases = Cardinality({i \in 1..Len(CycleCalls) : CycleCalls[i].isNewCase})
                                               /\ cyc.response.body.results.updatedCases = Cardinality({i \in 1..Len(CycleCalls) : ~CycleCalls[i].isNewCase})
                                               /\ \A i \in 1..Len(cyc.twitterResults) : /\ cyc.twitterResults[i].newCases + cyc.twitterResults[i].updatedCases = cyc.twitterResults[i].relevantPosts
                                                                                        /\ cyc.twitterResults[i].relevantPosts = Len(RelevantFetched(<<cyc.twitterResults[i]>>))

C14_Witness == /\ CycleReturned
               /\ cyc.response.body.results.newCases > 0
               /\ cyc.response.body.results.updatedCases > 0
               /\ \E i \in 1..Len(cyc.twitterResults) : cyc.twitterResults[i].relevantPosts < cyc.twitterResults[i].newPosts

\* the cycle of the last request threw
CycleThrew == Answered /\ cyc.failedQuery # <<>>

\* C15 as stated: each GET invokes runFullMonitoringCycle once; when it
\* returns the answer is a 2xx summary with the fields newCases,
\* updatedCases, processingTimeSeconds and timestamp; when it throws the
\* answer is non-2xx and carries the error message
C15_TriggerAnswers == Answered => /\ cyc.invocations = 1
                                  /\ ~CycleThrew => cyc.response.status \in 200..299 /\ {"newCases", "updatedCases", "processingTimeSeconds", "timestamp"} \subseteq DOMAIN cyc.response.body.results
                                  /\ CycleThrew => cyc.response.status \notin 200..299 /\ cyc.response.body.error # ""

\* C15, amended: the summary is the object under "results" and its fields
\* are newCases, updatedCases, processingTime (in seconds) and timestamp
C15_TriggerAnswersProcessingTime == Answered => /\ cyc.invocations = 1
                                                /\ ~CycleThrew => cyc.response.status \in 200..299 /\ DOMAIN cyc.response.body.results = {"newCases", "updatedCases", "processingTime", "timestamp"}
                                                /\ CycleThrew => cyc.response.status \notin 200..299 /\ cyc.response.body.error # ""

C15_Witness == CycleReturned /\ cyc.response.body.results.newCases > 0 /\ cyc.response.body.results.timestamp = now

(***************************************************************************)
(* Case management: updateCase, updateCaseStatus and the check of a case   *)
(* for replies, on cases the pipeline has created.  Neither operation      *)
(* compares the new status with the current one; the only check is the     *)
(* CHECK constraint of cases.status.                                       *)
(***************************************************************************)

\* the lifecycle, in order
Lifecycle == <<"reported", "verified", "identified", "apprehended", "prosecuted", "resolved">>

\* the values the CHECK constraint of cases.status accepts
Statuses == {Lifecycle[i] : i \in 1..Len(Lifecycle)} \cup {"unresolved"}

ManagePosts == {1, 5}

\* statuses callers pass
StatusInputs == {"reported", "verified", "resolved", "unresolved", "closed"}

\* the changes callers pass to updateCase
UpdateInputs == {[status |-> s] : s \in StatusInputs} \cup {[location_city |-> <<"D", "a", "l", "l", "a", "s">>]} \cup {[is_verified |-> TRUE]}

\* replies simulateCheckingForReplies may report
ReplyCounts == 0..2

\* the row after UPDATE ... SET updateData
UpdatedRow(row, updateData) == updateData @@ row

\* the cases table after .update(updateData).eq('id', caseId)
UpdateCases(cs, caseId, updateData) == [c \in 1..Len(cs) |-> IF cs[c].id = caseId THEN UpdatedRow(cs[c], updateData) ELSE cs[c]]

\* the CHECK constraints of cases accept the changed columns
UpdateAccepted(updateData) == "status" \in DOMAIN updateData => updateData.status \in Statuses

\* the update_type updateCase records
UpdateTypeOf(updateData) == IF "status" \in DOMAIN updateData /\ updateData.status # "reported" THEN "status_change"
                            ELSE IF "location_city" \in DOMAIN updateData \/ "location_state" \in DOMAIN updateData THEN "location_update"
                            ELSE "other"

\* updateCase as a function of the tables: the update, then the case update
\* row, whose case_id must reference a stored case
UpdateCaseResult(cs, upds, caseId, updateData) == IF ~UpdateAccepted(updateData) \/ caseId \notin 1..Len(cs)
                                                  THEN [error |-> TRUE, cases |-> IF UpdateAccepted(updateData) THEN UpdateCases(cs, caseId, updateData) ELSE cs, updates |-> upds]
                                                  ELSE [error |-> FALSE, cases |-> UpdateCases(cs, caseId, updateData),
                                                        updates |-> createCaseUpdate(upds, [case_id |-> caseId, update_type |-> UpdateTypeOf(updateData), importance |-> 3])]

updateCase(caseId, updateData) == LET done == UpdateCaseResult(cases, updates, caseId, updateData)
                                  IN /\ calls < MaxCalls
                                     /\ calls' = calls + 1
                                     /\ cases' = done.cases
                                     /\ updates' = done.updates
                                     /\ last' = [op |-> "updateCase", caseId |-> caseId, updateData |-> updateData, threw |-> done.error, prevUpdates |-> Len(updates),
                                                 previousStatus |-> IF caseId \in 1..Len(cases) THEN cases[caseId].status ELSE ""]
                                     /\ UNCHANGED <<sources, links, now, ticks, results, cyc, media, procs>>

updateCaseStatus(caseId, newStatus) == LET found == caseId \in 1..Len(cases)
                                           done == UpdateCaseResult(cases, updates, caseId, [status |-> newStatus])
                                       IN /\ calls < MaxCalls
                                          /\ calls' = calls + 1
                                          /\ IF ~found
                                             THEN /\ UNCHANGED <<cases, updates>>
                                                  /\ last' = [op |-> "updateCaseStatus", caseId |-> caseId, updateData |-> [status |-> newStatus], threw |-> TRUE, prevUpdates |-> Len(updates), previousStatus |-> ""]
                                             ELSE /\ cases' = done.cases
                                                  /\ updates' = IF done.error THEN done.updates
                                                                ELSE Append(done.updates, [case_id |-> caseId, update_type |-> "status_change", previous_status |-> cases[caseId].status, new_status |-> newStatus, importance |-> 4])
                                                  /\ last' = [op |-> "updateCaseStatus", caseId |-> caseId, updateData |-> [status |-> newStatus], threw |-> done.error, prevUpdates |-> Len(updates),
                                                              previousStatus |-> cases[caseId].status]
                                          /\ UNCHANGED <<sources, links, now, ticks, results, cyc, media, procs>>

\* the ids of the sources linked to a case through its updates
LinkedSources(upds, caseId) == {upds[i].source_id : i \in {j \in 1..Len(upds) : upds[j].case_id = caseId /\ "source_id" \in DOMAIN upds[j] /\ upds[j].source_id # 0}}

RECURSIVE createUpdateFromReplies(_, _, _, _)
\* createUpdateFromReplies: one case update per reply
createUpdateFromReplies(upds, caseId, sourceId, replyCount) == IF replyCount = 0 THEN upds
                                                               ELSE createUpdateFromReplies(Append(upds, [case_id |-> caseId, source_id |-> sourceId, update_type |-> "new_information", importance |-> 2]), caseId, sourceId, replyCount - 1)

RECURSIVE CheckSources(_, _, _, _)
\* the loop of checkCaseForUpdates over the linked sources, by ascending id
CheckSources(upds, caseId, todo, replies) == IF todo = {} THEN upds
                                             ELSE LET s == CHOOSE x \in todo : \A y \in todo : x <= y
                                                  IN CheckSources(createUpdateFromReplies(upds, caseId, s, replies[s]), caseId, todo \ {s}, replies)

checkCaseForUpdates(caseId, replies) == /\ calls < MaxCalls
                                        /\ calls' = calls + 1
                                        /\ caseId \in 1..Len(cases)
                                        /\ updates' = CheckSources(updates, caseId, {s \in LinkedSources(updates, caseId) : sources[s].platform = "twitter"}, replies)
                                        /\ last' = [op |-> "checkCaseForUpdates", caseId |-> caseId, threw |-> FALSE, prevUpdates |-> Len(updates), newUpdates |-> Len(updates') - Len(updates)]
                                        /\ UNCHANGED <<cases, sources, links, now, ticks, results, cyc, media, procs>>

NextManage == \/ \E p \in ManagePosts : seedCase(p) /\ UNCHANGED cyc
              \/ \E p \in ManagePosts : storeSocialMediaSource(p) /\ UNCHANGED cyc
              \/ \E caseId \in 1..(Len(cases) + 1), updateData \in UpdateInputs : updateCase(caseId, updateData)
              \/ \E caseId \in 1..(Len(cases) + 1), newStatus \in StatusInputs : updateCaseStatus(caseId, newStatus)
              \/ \E caseId \in 1..Len(cases) : \E replies \in [LinkedSources(updates, caseId) -> ReplyCounts] : checkCaseForUpdates(caseId, replies)

SpecManage == Init /\ [][NextManage]_vars

\* the position of a status in the lifecycle (0: not in it)
Rank(status) == IF \E i \in 1..Len(Lifecycle) : Lifecycle[i] = status THEN CHOOSE i \in 1..Len(Lifecycle) : Lifecycle[i] = status ELSE 0

\* a status change that moves forward along the lifecycle, or to unresolved
MovesForward(from, to) == \/ to = from
                          \/ to = "unresolved" /\ from \in Statuses
                          \/ Rank(from) > 0 /\ Rank(to) > Rank(from)

\* the last call was an update of a stored case's status that did not throw
LastStatusUpdate == last.op \in {"updateCase", "updateCaseStatus"} /\ ~last.threw /\ "status" \in DOMAIN last.updateData

\* C16: under updateCase and updateCaseStatus the status of a case only
\* moves forward along reported, verified, identified, apprehended,
\* prosecuted, resolved (or to unresolved)
C16_StatusMovesForward == LastStatusUpdate => MovesForward(last.previousStatus, cases[last.caseId].status)

\* C17: the stores are append-only: no operation removes a case, or changes
\* or removes a stored source or a stored case update; cases keep their
\* identity and creation time
C17_StoresAppendOnly == [][/\ Len(cases') >= Len(cases)
                           /\ \A c \in 1..Len(cases) : cases'[c].id = cases[c].id /\ cases'[c].created_at = cases[c].created_at
                           /\ Len(sources') >= Len(sources)
                           /\ SubSeq(sources', 1, Len(sources)) = sources
                           /\ Len(updates') >= Len(updates)
                           /\ SubSeq(updates', 1, Len(updates)) = updates]_vars

C17_Witness == /\ last.op = "updateCase"
               /\ ~last.threw
               /\ cases[last.caseId].status # last.previousStatus
               /\ Len(sources) > 0
               /\ Len(updates) > 2

(***************************************************************************)
(* The similarity score as a function of its inputs: one stored case, one  *)
(* new post, the damage tags of both and the time of the query.  created_at*)
(* is set by the database (DEFAULT NOW()) and "now" is the application's   *)
(* new Date(): the two clocks are different clocks, so the case may be     *)
(* stamped later than the query's "now".                                   *)
(***************************************************************************)

\* hours on the application's clock
MaxClock == 52

\* hours at which the stored case was stamped
CreatedAtInputs == {0, 2}

\* tag lists as determineDamageType builds them from three of the categories
TagLists == {<<>>, <<"keying">>, <<"graffiti">>, <<"denting">>, <<"keying", "graffiti">>, <<"keying", "denting">>, <<"graffiti", "denting">>, <<"keying", "graffiti", "denting">>}

\* two query times for one case and one pair of tag lists
TimeInputs == {[op |-> "input", createdAt |-> c, clock |-> h, laterClock |-> k, damageType |-> <<"keying">>, caseDamageTypes |-> <<"keying">>] : c \in CreatedAtInputs, h \in 0..MaxClock, k \in 0..MaxClock}

\* the pairs of tag lists at one query time
DamageInputs == {[op |-> "input", createdAt |-> 0, clock |-> 48, laterClock |-> 48, damageType |-> n, caseDamageTypes |-> c] : n \in TagLists \ {<<>>}, c \in TagLists}

InitScore == /\ cases = <<>>
             /\ sources = <<>>
             /\ updates = <<>>
             /\ links = {}
             /\ now = 0
             /\ ticks = 0
             /\ calls = 0
             /\ results = <<>>
             /\ cyc = NoCycle
             /\ media = <<>>
             /\ procs = <<>>
             /\ last \in TimeInputs \cup DamageInputs

\* the case stored for post 1, with the given tags and creation time
ScoredCase(caseDamageTypes, createdAt) == NewCaseRow(1, Classified[1].targetType, Classified[1].targetDetails, Classified[1].locationInfo, caseDamageTypes, createdAt)

\* the map callback of findPotentialDuplicates for post 2 against that case
ScoreAt(input, clock) == SimilarityScore(ScoredCase(input.caseDamageTypes, input.createdAt), Classified[2].locationInfo, Classified[2].targetDetails, input.damageType, clock)

scoreCandidate == /\ last.op = "input"
                  /\ last' = [last EXCEPT !.op = "score"] @@ [similarityScore |-> ScoreAt(last, last.clock), laterScore |-> ScoreAt(last, last.laterClock),
                                                              scoreWithoutTags |-> SimilarityScore(ScoredCase(<<>>, last.createdAt), Classified[2].locationInfo, Classified[2].targetDetails, last.damageType, last.clock),
                                                              hoursDiff |-> last.clock - last.createdAt, laterHoursDiff |-> last.laterClock - last.createdAt,
                                                              timeTerm |-> TimeProximity(last.clock - last.createdAt)]
                  /\ UNCHANGED <<cases, sources, updates, links, now, ticks, calls, results, cyc, media, procs>>

NextScore == scoreCandidate

SpecScore == InitScore /\ [][NextScore]_vars

Scored == last.op = "score"

\* C18: all else equal the score does not increase with the time difference
\* over [0, 48 h); the time term is 0.2 * (1 - h/48) there and 0 from 48 h
\* on; it never exceeds 0.2, whatever the candidate's timestamp
C18_TimeTermDecays == Scored => /\ 0 <= last.hoursDiff /\ last.hoursDiff <= last.laterHoursDiff /\ last.laterHoursDiff < 48 => last.similarityScore >= last.laterScore
                                /\ 0 <= last.hoursDiff /\ last.hoursDiff < 48 => 48 * last.timeTerm = (ScoreUnit \div 5) * (48 - last.hoursDiff)
                                /\ last.hoursDiff >= 48 => last.timeTerm = 0
                                /\ last.timeTerm <= ScoreUnit \div 5

\* the tags of a list
TagSet(tags) == {tags[i] : i \in 1..Len(tags)}

\* the damage term of the last score
DamageTermOfLast == last.similarityScore - last.scoreWithoutTags

\* C19: the damage term is 0.2 * |N /\ C| / |N| for the new post's tags N
\* and the case's tags C: half of 0.2 for one of two tags, all of 0.2 for
\* {keying} against {graffiti, keying}, 0 without overlap
C19_DamageTermIsOverlapFraction == Scored => /\ Len(last.damageType) * DamageTermOfLast = (ScoreUnit \div 5) * Cardinality(TagSet(last.damageType) \cap TagSet(last.caseDamageTypes))
                                             /\ last.damageType = <<"keying", "graffiti">> /\ last.caseDamageTypes = <<"keying">> => 2 * DamageTermOfLast = ScoreUnit \div 5
                                             /\ last.damageType = <<"keying">> /\ last.caseDamageTypes = <<"keying", "graffiti">> => DamageTermOfLast = ScoreUnit \div 5
                                             /\ TagSet(last.damageType) \cap TagSet(last.caseDamageTypes) = {} => DamageTermOfLast = 0

C19_Witness == Scored /\ last.damageType = <<"keying", "graffiti">> /\ last.caseDamageTypes = <<"keying">> /\ DamageTermOfLast = 120

(***************************************************************************)
(* More than ten candidates: vehicle posts from Austin, TX that arrive two *)
(* days apart and differ in model or in damage, so that none is merged     *)
(* into an earlier case, each possibly followed by a second pass over the  *)
(* newest post.                                                            *)
(***************************************************************************)

\* the posts, in the order of their arrival
WindowPosts == <<4, 9, 10, 11, 12, 13, 14, 15, 16, 17, 18, 19>>

\* calls of createCaseFromSocialMedia in this scenario
MaxWindowCalls == 12

\* the post that arrives next, and the newest post once more
ArrivingPosts == (IF Len(sources) < Len(WindowPosts) THEN {WindowPosts[Len(sources) + 1]} ELSE {}) \cup (IF Len(sources) > 0 THEN {WindowPosts[Len(sources)]} ELSE {})

arrive(p) == /\ ticks = calls
             /\ calls < MaxWindowCalls
             /\ createCaseFromSocialMedia(p)
             /\ UNCHANGED cyc

twoDaysPass == /\ ticks < calls
               /\ now' = now + 48
               /\ ticks' = ticks + 1
               /\ UNCHANGED <<cases, sources, updates, links, calls, results, last, cyc, media, procs>>

NextWindow == \/ \E p \in ArrivingPosts : arrive(p)
              \/ twoDaysPass

SpecWindow == Init /\ [][NextWindow]_vars

\* the cases stored before the last call that have the post's city and target type
MatchingBefore == {c \in 1..last.prevCases : cases[c].location_city = Classified[last.post].locationInfo.city /\ cases[c].target_type = Classified[last.post].targetType}

\* the (at most ten) most recently created of them
MostRecentMatching == {c \in MatchingBefore : Cardinality({d \in MatchingBefore : d > c}) < 10}

\* C20: the candidates scored for a new post are exactly the (at most 10)
\* most recently created cases with its location_city and target_type; the
\* list is sorted by score, descending, and a merge goes to a case with the
\* maximal score
C20_TenMostRecentCandidates == LastCreate => /\ {last.potentialDuplicates[i].case : i \in 1..Len(last.potentialDuplicates)} = MostRecentMatching
                                             /\ Len(last.potentialDuplicates) = Cardinality(MostRecentMatching)
                                             /\ \A i, j \in 1..Len(last.potentialDuplicates) : i < j => last.potentialDuplicates[i].similarityScore >= last.potentialDuplicates[j].similarityScore
                                             /\ ~last.threw /\ last.isDuplicate => \E i \in BestCandidates : last.potentialDuplicates[i].case = last.caseId

C20_Witness == /\ LastCreate
               /\ Cardinality(MatchingBefore) > 10
               /\ Len(last.potentialDuplicates) = 10
               /\ ~last.threw
               /\ last.isDuplicate

(***************************************************************************)
(* The pace of one Twitter cycle.  runTwitterMonitoringCycle is one        *)
(* process; it awaits every searchTwitter, searchTwitter awaits every      *)
(* createCaseFromSocialMedia, and after a keyword or an account search the *)
(* cycle sleeps on a timer.  The clock of this section counts              *)
(* milliseconds; spans records when each search and each call began and    *)
(* ended.                                                                  *)
(***************************************************************************)

\* the clock stops here
MaxMs == 3000

\* setTimeout(resolve, 1000) after the searches of the keywords only
DelayMs_KeywordsOnly(kind) == IF kind = "keyword" THEN 1000 ELSE 0

\* the delay the cycle awaits after a search of this kind
DelayMs(kind) == IF kind \in {"keyword", "account"} THEN 1000 ELSE 0

\* the cycle process
Pace == procs[1]

\* the span that is open, closed at the clock
CloseLast(spans, kind, clock) == [i \in 1..Len(spans) |-> IF spans[i].kind = kind /\ spans[i].running THEN [spans[i] EXCEPT !.running = FALSE, !.end = clock] ELSE spans[i]]

\* runTwitterMonitoringCycle is called
startPace(keywords, accounts) == /\ procs = <<>>
                                 /\ procs' = << [pc |-> "call", queue |-> SearchPlan(keywords, accounts), clock |-> 0, wake |-> 0, pending |-> 0, spans |-> <<>>] >>
                                 /\ UNCHANGED <<cases, sources, updates, links, now, ticks, calls, results, last, cyc, media>>

\* the cycle calls searchTwitter for the next query and awaits it
beginSearch(tweets) == /\ procs # <<>>
                       /\ Pace.pc = "call"
                       /\ Pace.queue # <<>>
                       /\ procs' = << [Pace EXCEPT !.pc = "processing", !.pending = tweets,
                                                   !.spans = Append(@, [kind |-> "search", query |-> Head(Pace.queue), start |-> Pace.clock, end |-> Pace.clock, running |-> TRUE])] >>
                       /\ UNCHANGED <<cases, sources, updates, links, now, ticks, calls, results, last, cyc, media>>

\* searchTwitter calls createCaseFromSocialMedia for the next relevant tweet and awaits it
beginCase == /\ procs # <<>>
             /\ Pace.pc = "processing"
             /\ Pace.pending > 0
             /\ procs' = << [Pace EXCEPT !.pc = "inCase", !.spans = Append(@, [kind |-> "case", query |-> Head(Pace.queue), start |-> Pace.clock, end |-> Pace.clock, running |-> TRUE])] >>
             /\ UNCHANGED <<cases, sources, updates, links, now, ticks, calls, results, last, cyc, media>>

\* createCaseFromSocialMedia returns
endCase == /\ procs # <<>>
           /\ Pace.pc = "inCase"
           /\ procs' = << [Pace EXCEPT !.pc = "processing", !.pending = @ - 1, !.spans = CloseLast(@, "case", Pace.clock)] >>
           /\ UNCHANGED <<cases, sources, updates, links, now, ticks, calls, results, last, cyc, media>>

\* searchTwitter returns; after a keyword or an account search the cycle
\* sets the timer and awaits it
endSearch == /\ procs # <<>>
             /\ Pace.pc = "processing"
             /\ Pace.pending = 0
             /\ procs' = << [Pace EXCEPT !.pc = IF DelayMs(Head(Pace.queue)[1]) > 0 THEN "sleeping" ELSE "call", !.queue = Tail(@),
                                         !.wake = Pace.clock + DelayMs(Head(Pace.queue)[1]), !.spans = CloseLast(@, "search", Pace.clock)] >>
             /\ UNCHANGED <<cases, sources, updates, links, now, ticks, calls, results, last, cyc, media>>

\* the timer fires, no sooner than its delay
wakeUp == /\ procs # <<>>
          /\ Pace.pc = "sleeping"
          /\ Pace.clock >= Pace.wake
          /\ procs' = << [Pace EXCEPT !.pc = "call"] >>
          /\ UNCHANGED <<cases, sources, updates, links, now, ticks, calls, results, last, cyc, media>>

\* the cycle returns its results
endPace == /\ procs # <<>>
           /\ Pace.pc = "call"
           /\ Pace.queue = <<>>
           /\ procs' = << [Pace EXCEPT !.pc = "returned"] >>
           /\ UNCHANGED <<cases, sources, updates, links, now, ticks, calls, results, last, cyc, media>>

\* time passes
elapse(ms) == /\ procs # <<>>
              /\ Pace.pc # "returned"
              /\ Pace.clock + ms <= MaxMs
              /\ procs' = << [Pace EXCEPT !.clock = @ + ms] >>
              /\ UNCHANGED <<cases, sources, updates, links, now, ticks, calls, results, last, cyc, media>>

NextPace == \/ \E keywords \in 0..MaxKeywords, accounts \in 0..MaxAccounts : startPace(keywords, accounts)
            \/ \E tweets \in 0..2 : beginSearch(tweets)
            \/ beginCase
            \/ endCase
            \/ endSearch
            \/ wakeUp
            \/ endPace
            \/ \E ms \in {500, 1000} : elapse(ms)

SpecPace == Init /\ [][NextPace]_vars

\* the spans of one kind, in the order they began
SpansOf(kind) == IF procs = <<>> THEN <<>> ELSE SelectSeq(Pace.spans, LAMBDA s : s.kind = kind)

\* no span of this kind begins before the one before it has ended
OneAtATime(kind) == \A i \in 1..Len(SpansOf(kind)) : \A j \in 1..Len(SpansOf(kind)) :
                        i < j => ~SpansOf(kind)[i].running /\ SpansOf(kind)[i].end <= SpansOf(kind)[j].start

\* C21: within one cycle no two searchTwitter executions and no two
\* createCaseFromSocialMedia executions overlap, and every search but the
\* first begins at least 1000 ms after the search before it ended, the final
\* hashtag search included
C21_SearchesOneAtATimeAndSpaced == /\ OneAtATime("search")
                                   /\ OneAtATime("case")
                                   /\ \A j \in 2..Len(SpansOf("search")) : SpansOf("search")[j].start >= SpansOf("search")[j - 1].end + 1000

\* a keyword, an account and the hashtag search have all run, with calls inside
C21_Witness == /\ Len(SpansOf("search")) = 3
               /\ SpansOf("search")[3].query[1] = "hashtag"
               /\ ~SpansOf("search")[3].running
               /\ Len(SpansOf("case")) >= 2

(***************************************************************************)
(* Media.  analyzeTwitterSearchResults puts what extractMediaUrls finds on *)
(* the entry of the tweet, beside its analysis; searchTwitter hands        *)
(* createCaseFromSocialMedia the analysis only.                            *)
(***************************************************************************)

\* extractMediaUrls(tweet) for the tweets of the catalogue: the first carries
\* two photos, the second a video, the others nothing
TweetMedia(p) == IF p = 1 THEN << [type |-> "photo", url |-> "photo-a"], [type |-> "photo", url |-> "photo-b"] >>
                 ELSE IF p = 2 THEN << [type |-> "video", url |-> "video-a"] >>
                 ELSE <<>>

\* the case_media rows of a case
MediaOf(caseId) == SelectSeq(media, LAMBDA m : m.case_id = caseId)

\* C22: after the cycle has processed a relevant post whose tweet carries
\* media, every media item is a case_media row of the resulting case and
\* exactly the first of them is flagged is_primary
C22_MediaAttachedFirstPrimary == (LastCreate /\ ~last.threw /\ TweetMedia(last.post) # <<>>)
                                     => /\ \A i \in 1..Len(TweetMedia(last.post)) :
                                               \E k \in 1..Len(MediaOf(last.caseId)) : /\ MediaOf(last.caseId)[k].url = TweetMedia(last.post)[i].url
                                                                                       /\ MediaOf(last.caseId)[k].is_primary = (i = 1)

(***************************************************************************)
(* Partial writes.  createCaseFromSocialMedia writes the case first, then  *)
(* the source, then the case update; nothing undoes a write when a later   *)
(* one fails.                                                              *)
(***************************************************************************)

\* the last call took the branch that creates a case
LastCallCreates == ~IsVeryLikelyDuplicate(last.potentialDuplicates)

\* the source of the post of the last call is stored
LastSourceStored == ExistingSourceId(sources, SourceOf(last.post)) # 0

\* C23 (as stated): no write of a failing call is undone, and the partial
\* state the call leaves when the creation of its new Case fails is one in
\* which it has stored its Source
C23_SourceStoredWhenCaseFails == (LastCallFailed /\ last.threw /\ last.failed = "case_insert") => Len(sources) = last.prevSources + 1

\* C23 (amended): no write of a failing call is undone, and the case is
\* written first: a call whose case insert fails has written nothing, a call
\* whose source insert fails leaves its new Case stored without a Source,
\* a call whose update insert fails leaves the Case and the Source stored,
\* and a merge whose second update insert fails leaves the first update stored
C23_EarlierWritesRemain == (LastCallFailed /\ last.threw)
                               => /\ Len(cases) = last.prevCases + (IF LastCallCreates /\ last.failed # "case_insert" THEN 1 ELSE 0)
                                  /\ last.failed = "case_insert" => Len(sources) = last.prevSources /\ Len(updates) = last.prevUpdates
                                  /\ last.failed = "source_insert" => Len(sources) = last.prevSources /\ ~LastSourceStored /\ Len(updates) = last.prevUpdates
                                  /\ last.failed = "update_insert" => LastSourceStored /\ Len(updates) = last.prevUpdates
                                  /\ last.failed = "second_update_insert" => LastSourceStored /\ Len(updates) = last.prevUpdates + 1

\* a new Case is stored while the insert of its Source has failed
C23_Witness == /\ LastCallFailed /\ last.threw
               /\ last.failed = "source_insert"
               /\ LastCallCreates
               /\ Len(cases) = last.prevCases + 1
               /\ ~LastSourceStored

(***************************************************************************)
(* Overlapping executions.  Every await of createCaseFromSocialMedia and   *)
(* of linkSourceToCase is a point where another execution, started by an   *)
(* overlapping cycle, may run.  procs holds one record per execution: what *)
(* it was called for, where it stands and the locals it has set so far.    *)
(* Each action is the code between two awaits, with the one repository     *)
(* statement it ends in.                                                   *)
(***************************************************************************)

\* executions that may overlap
MaxRacers == 2

\* an execution that has been called and has not read anything yet
NewExecution(p) == [op |-> "createCaseFromSocialMedia", post |-> p, pc |-> "query", potentialDuplicates |-> <<>>, queriedWith |-> 0,
                    caseId |-> 0, isNewCase |-> FALSE, lookedUpWith |-> 0, sourceId |-> 0]

\* the candidate list the execution decides on, had it queried again right before the insert
KnownCandidates_Requeried(proc, cs) == findPotentialDuplicates(cs, Classified[proc.post].locationInfo, Classified[proc.post].targetDetails, Classified[proc.post].damageType, now)

\* the candidate list the execution decides on: the one its query returned
KnownCandidates(proc, cs) == proc.potentialDuplicates

\* createCaseFromSocialMedia is called
enter(p) == /\ Len(procs) < MaxRacers
            /\ procs' = Append(procs, NewExecution(p))
            /\ UNCHANGED <<cases, sources, updates, links, now, ticks, calls, results, last, cyc, media>>

\* await findPotentialDuplicates(...)
queryCandidates(i) == /\ procs[i].pc = "query"
                      /\ procs' = [procs EXCEPT ![i].pc = "decide", ![i].queriedWith = Len(cases),
                                                ![i].potentialDuplicates = findPotentialDuplicates(cases, Classified[procs[i].post].locationInfo, Classified[procs[i].post].targetDetails,
                                                                                                   Classified[procs[i].post].damageType, now)]
                      /\ UNCHANGED <<cases, sources, updates, links, now, ticks, calls, results, last, cyc, media>>

\* the test of the best candidate and, when it is no duplicate, the insert of the new case
insertOrMerge(i) == /\ procs[i].pc = "decide"
                    /\ IF IsVeryLikelyDuplicate(KnownCandidates(procs[i], cases))
                       THEN /\ procs' = [procs EXCEPT ![i].pc = "lookup", ![i].caseId = KnownCandidates(procs[i], cases)[1].case, ![i].isNewCase = FALSE]
                            /\ cases' = cases
                       ELSE /\ procs' = [procs EXCEPT ![i].pc = "lookup", ![i].caseId = Len(cases) + 1, ![i].isNewCase = TRUE]
                            /\ cases' = Append(cases, NewCaseRow(Len(cases) + 1, Classified[procs[i].post].targetType, Classified[procs[i].post].targetDetails,
                                                                 Classified[procs[i].post].locationInfo, Classified[procs[i].post].damageType, now))
                    /\ UNCHANGED <<sources, updates, links, now, ticks, calls, results, last, cyc, media>>

\* linkSourceToCase: the lookup of the source
lookupSource(i) == /\ procs[i].pc = "lookup"
                   /\ procs' = [procs EXCEPT ![i].pc = IF NeedsInsert(ExistingSourceId(sources, SourceOf(procs[i].post))) THEN "insert" ELSE "update",
                                             ![i].lookedUpWith = Len(sources), ![i].sourceId = ExistingSourceId(sources, SourceOf(procs[i].post))]
                   /\ UNCHANGED <<cases, sources, updates, links, now, ticks, calls, results, last, cyc, media>>

\* linkSourceToCase: the insert of the source; its error is thrown and
\* nothing on the way up catches it
insertSource(i) == /\ procs[i].pc = "insert"
                   /\ sources' = InsertSource(sources, SourceOf(procs[i].post)).sources
                   /\ procs' = [procs EXCEPT ![i].pc = IF InsertSource(sources, SourceOf(procs[i].post)).error THEN "threw" ELSE "update",
                                             ![i].sourceId = InsertSource(sources, SourceOf(procs[i].post)).id]
                   /\ UNCHANGED <<cases, updates, links, now, ticks, calls, results, last, cyc, media>>

\* linkSourceToCase: the case update that attaches the source
attachSource(i) == /\ procs[i].pc = "update"
                   /\ updates' = createCaseUpdate(updates, [case_id |-> procs[i].caseId, source_id |-> procs[i].sourceId, update_type |-> "new_information", importance |-> 3])
                   /\ procs' = [procs EXCEPT ![i].pc = IF procs[i].isNewCase THEN "linking" ELSE "secondUpdate"]
                   /\ UNCHANGED <<cases, sources, links, now, ticks, calls, results, last, cyc, media>>

\* the merge branch: the update createCaseFromSocialMedia adds itself
secondUpdate(i) == /\ procs[i].pc = "secondUpdate"
                   /\ updates' = createCaseUpdate(updates, [case_id |-> procs[i].caseId, source_id |-> SourceOf(procs[i].post).id, update_type |-> "new_information", importance |-> 2])
                   /\ procs' = [procs EXCEPT ![i].pc = "returned"]
                   /\ UNCHANGED <<cases, sources, links, now, ticks, calls, results, last, cyc, media>>

\* the branch that created a case: the links to the possible duplicates
linkCandidates(i) == /\ procs[i].pc = "linking"
                     /\ links' = LinkPossibleDuplicates(links, Len(cases), procs[i].caseId, procs[i].potentialDuplicates, 1)
                     /\ procs' = [procs EXCEPT ![i].pc = "returned"]
                     /\ UNCHANGED <<cases, sources, updates, now, ticks, calls, results, last, cyc, media>>

NextRace == \/ \E p \in {1, 2} : enter(p)
            \/ \E i \in 1..Len(procs) : queryCandidates(i)
            \/ \E i \in 1..Len(procs) : insertOrMerge(i)
            \/ \E i \in 1..Len(procs) : lookupSource(i)
            \/ \E i \in 1..Len(procs) : insertSource(i)
            \/ \E i \in 1..Len(procs) : attachSource(i)
            \/ \E i \in 1..Len(procs) : secondUpdate(i)
            \/ \E i \in 1..Len(procs) : linkCandidates(i)

SpecRace == Init /\ [][NextRace]_vars

\* two executions for the same post
Racing(i, j) == i # j /\ procs[i].post = procs[j].post

\* the execution has got past its test of the best candidate
Decided(proc) == proc.pc \notin {"query", "decide"}

\* the two cases record the same incident
SameIncident(a, b) == /\ cases[a].location_city = cases[b].location_city
                      /\ cases[a].target_type = cases[b].target_type
                      /\ cases[a].target_details = cases[b].target_details
                      /\ cases[a].damage_type = cases[b].damage_type

\* C24: when two executions for exact duplicates both found no candidate
\* scoring above 0.85, because both queried before either inserted, each of
\* them inserts a case of its own: two Cases for the one incident
C24_BothCreateACase == \A i \in 1..Len(procs), j \in 1..Len(procs) :
                           (/\ Racing(i, j)
                            /\ Decided(procs[i]) /\ Decided(procs[j])
                            /\ ~IsVeryLikelyDuplicate(procs[i].potentialDuplicates) /\ ~IsVeryLikelyDuplicate(procs[j].potentialDuplicates))
                               => /\ procs[i].isNewCase /\ procs[j].isNewCase
                                  /\ procs[i].caseId # procs[j].caseId
                                  /\ SameIncident(procs[i].caseId, procs[j].caseId)

\* both executions queried the empty table and two cases are stored
C24_Witness == /\ Len(procs) = 2
               /\ Racing(1, 2)
               /\ Decided(procs[1]) /\ Decided(procs[2])
               /\ procs[1].queriedWith = 0 /\ procs[2].queriedWith = 0
               /\ Len(cases) = 2
               /\ SameIncident(1, 2)

\* the execution has left linkSourceToCase, by returning or by throwing
LeftLink(proc) == proc.pc \in {"linking", "secondUpdate", "returned", "threw"}

\* the execution's lookup found no source and it went on to insert one
LookedUpNothing(proc) == proc.pc \in {"insert", "threw"} \/ (LeftLink(proc) /\ proc.sourceId # 0 /\ proc.lookedUpWith < proc.sourceId)

\* the stored sources with the key of this post
StoredFor(p) == {k \in 1..Len(sources) : sources[k].platform = SourceOf(p).platform /\ sources[k].platform_id = SourceOf(p).platform_id}

\* the execution has attached a stored source to its case
Attached(proc) == \E u \in 1..Len(updates) : updates[u].case_id = proc.caseId /\ updates[u].source_id \in StoredFor(proc.post)

\* C25: when two executions of linkSourceToCase for the same key both look
\* the source up before either inserts it, there is never a second Source
\* for the key, and both executions complete without an error and attach
\* the source to their case
C25_SourceRaceTolerated == \A i \in 1..Len(procs), j \in 1..Len(procs) :
                               (Racing(i, j) /\ LookedUpNothing(procs[i]) /\ LookedUpNothing(procs[j]) /\ LeftLink(procs[i]) /\ LeftLink(procs[j]))
                                   => /\ Cardinality(StoredFor(procs[i].post)) <= 1
                                      /\ procs[i].pc # "threw" /\ procs[j].pc # "threw"
                                      /\ Attached(procs[i]) /\ Attached(procs[j])

(***************************************************************************)
(* Posts without a city                                                    *)
(***************************************************************************)

\* the last call was for a post from which no city was extracted
LastPostHasNoCity == LastCreate /\ Classified[last.post].locationInfo.city = <<>>

\* the cases stored before the last call that came from a post without a city
\* and have the target type of the last post
EarlierCityless == {k \in 1..last.prevCases : cases[k].location_city = Null /\ cases[k].target_type = Classified[last.post].targetType}

\* C26: a post from which no city was extracted matches no stored Case as a
\* candidate, and the call for it creates a new Case
C26_NoCityNeverMatches == LastPostHasNoCity => /\ last.potentialDuplicates = <<>>
                                               /\ ~last.threw => /\ last.isNewCase
                                                                 /\ ~last.isDuplicate
                                                                 /\ Len(cases) = last.prevCases + 1
                                                                 /\ last.caseId = Len(cases)

\* a post without a city arrived when a case of the same target type, also
\* without a city, was stored, and a new case was created all the same
C26_Witness == /\ LastPostHasNoCity
               /\ ~last.threw
               /\ EarlierCityless # {}
               /\ last.isNewCase

(***************************************************************************)
(* The case updates of one call                                            *)
(***************************************************************************)

\* the case updates the last call appended
AppendedUpdates == SubSeq(updates, last.prevUpdates + 1, Len(updates))

\* C27: a successful createCaseFromSocialMedia call appends exactly one Case
\* Update, attached to the Case it returns and carrying the id of the stored
\* Source as source_id, on the new-case path and on the merge path alike
C27_OneUpdatePerCall == (LastCreate /\ ~last.threw) => /\ Len(AppendedUpdates) = 1
                                                       /\ AppendedUpdates[1].case_id = last.caseId
                                                       /\ AppendedUpdates[1].source_id = last.sourceId
                                                       /\ last.sourceId = ExistingSourceId(sources, SourceOf(last.post))

(***************************************************************************)
(* Scheduled monitoring.  setupScheduledMonitoring starts a cycle at once  *)
(* and, on every interval tick, a cycle and a check of all cases; it       *)
(* awaits none of them.  Here procs holds one record per started           *)
(* runFullMonitoringCycle or checkAllCasesForUpdates; each proceeds from   *)
(* await to await on its own.  The searches are those of the stand-in      *)
(* simulateTwitterSearch, which finds no post.                             *)
(***************************************************************************)

\* interval ticks that fire
MaxIntervals == 2

\* a runFullMonitoringCycle that has just been called
StartedCycle == [op |-> "runFullMonitoringCycle", pc |-> "searching", queue |-> SearchPlan(MaxKeywords, MaxAccounts)]

\* a checkAllCasesForUpdates that has just been called
StartedCheck == [op |-> "checkAllCasesForUpdates", pc |-> "selecting", queue |-> <<>>]

\* setupScheduledMonitoring: the initial cycle is started and the interval is set
setupScheduledMonitoring == /\ procs = <<>>
                            /\ procs' = <<StartedCycle>>
                            /\ UNCHANGED <<cases, sources, updates, links, now, ticks, calls, results, last, cyc, media>>

\* the callback of setInterval: a cycle and a check are started, whatever
\* the ones started before are doing
intervalTick == /\ procs # <<>>
                /\ Len(procs) < 1 + 2 * MaxIntervals
                /\ procs' = procs \o <<StartedCycle, StartedCheck>>
                /\ UNCHANGED <<cases, sources, updates, links, now, ticks, calls, results, last, cyc, media>>

\* a cycle gets the answer of one search (no post) and goes on to the next
cycleSearched(i) == /\ procs[i].op = "runFullMonitoringCycle"
                    /\ procs[i].pc = "searching"
                    /\ procs' = [procs EXCEPT ![i].queue = Tail(@), ![i].pc = IF Len(procs[i].queue) = 1 THEN "logging" ELSE "searching"]
                    /\ UNCHANGED <<cases, sources, updates, links, now, ticks, calls, results, last, cyc, media>>

\* a check gets the list of the active cases and checks each of them
checkSelected(i) == /\ procs[i].op = "checkAllCasesForUpdates"
                    /\ procs[i].pc = "selecting"
                    /\ procs' = [procs EXCEPT ![i].queue = [k \in 1..Len(SelectSeq(cases, LAMBDA c : c.status \notin {"resolved", "unresolved"})) |->
                                                              SelectSeq(cases, LAMBDA c : c.status \notin {"resolved", "unresolved"})[k].id],
                                              ![i].pc = "logging"]
                    /\ UNCHANGED <<cases, sources, updates, links, now, ticks, calls, results, last, cyc, media>>

\* logMonitoringCycle returns and the cycle or the check ends
logged(i) == /\ procs[i].pc = "logging"
             /\ procs' = [procs EXCEPT ![i].pc = "finished"]
             /\ UNCHANGED <<cases, sources, updates, links, now, ticks, calls, results, last, cyc, media>>

NextSched == \/ setupScheduledMonitoring
             \/ intervalTick
             \/ \E i \in 1..Len(procs) : cycleSearched(i)
             \/ \E i \in 1..Len(procs) : checkSelected(i)
             \/ \E i \in 1..Len(procs) : logged(i)

SpecSched == Init /\ [][NextSched]_vars

\* the cycles and checks that have started and not finished
InFlight(op) == {i \in 1..Len(procs) : procs[i].op = op /\ procs[i].pc # "finished"}

\* C28: after setupScheduledMonitoring at most one monitoring cycle is in
\* flight at any time, and no checkAllCasesForUpdates is in flight while a
\* cycle is
C28_OneCycleInFlight == /\ Cardinality(InFlight("runFullMonitoringCycle")) <= 1
                        /\ InFlight("checkAllCasesForUpdates") # {} => InFlight("runFullMonitoringCycle") = {}

(***************************************************************************)
(* The case updates of a status change                                     *)
(***************************************************************************)

\* the status_change updates the last call appended
AppendedStatusChanges == SelectSeq(SubSeq(updates, last.prevUpdates + 1, Len(updates)), LAMBDA u : u.update_type = "status_change")

\* C29: an updateCaseStatus call with a new status other than 'reported'
\* appends exactly one Case Update of type status_change to the case, and it
\* records the status before the call as previous_status and the new status
\* as new_status
C29_OneStatusChangeUpdate == (last.op = "updateCaseStatus" /\ ~last.threw /\ last.updateData.status # "reported")
                                 => /\ Len(AppendedStatusChanges) = 1
                                    /\ AppendedStatusChanges[1].case_id = last.caseId
                                    /\ AppendedStatusChanges[1].previous_status = last.previousStatus
                                    /\ AppendedStatusChanges[1].new_status = last.updateData.status

(***************************************************************************)
(* The admin page.  Its first record in procs is the page itself, with the *)
(* variables of the component; the records after it are the cycles the     *)
(* page has started.  A cycle proceeds as in scheduled monitoring, and may *)
(* throw; when it has ended, runMonitoring resumes after its await.        *)
(***************************************************************************)

\* clicks on the button
MaxClicks == 3

\* the component after it has been mounted
MountedPage == [op |-> "page", isRunningMonitoring |-> FALSE, monitoringResults |-> "null", error |-> "null", clicks |-> 0, ignored |-> 0]

\* the guard is never taken
AlreadyRunning_Never(page) == FALSE

\* if (isRunningMonitoring) return
AlreadyRunning(page) == page.isRunningMonitoring

\* the page is loaded
mount == /\ procs = <<>>
         /\ procs' = <<MountedPage>>
         /\ UNCHANGED <<cases, sources, updates, links, now, ticks, calls, results, last, cyc, media>>

\* runMonitoring, up to its await
runMonitoring == /\ procs # <<>>
                 /\ procs[1].clicks < MaxClicks
                 /\ procs' = IF AlreadyRunning(procs[1])
                             THEN [procs EXCEPT ![1].clicks = @ + 1, ![1].ignored = @ + 1]
                             ELSE Append([procs EXCEPT ![1].clicks = @ + 1, ![1].isRunningMonitoring = TRUE, ![1].monitoringResults = "null"], StartedCycle)
                 /\ UNCHANGED <<cases, sources, updates, links, now, ticks, calls, results, last, cyc, media>>

\* a search of a cycle throws, and the cycle with it
cycleThrew(i) == /\ procs[i].op = "runFullMonitoringCycle"
                 /\ procs[i].pc = "searching"
                 /\ procs' = [procs EXCEPT ![i].pc = "threw"]
                 /\ UNCHANGED <<cases, sources, updates, links, now, ticks, calls, results, last, cyc, media>>

\* runMonitoring after its await: the results are kept, or the catch block
\* sets the error; the finally block resets the flag
runMonitoringResumes(i) == /\ procs[i].op = "runFullMonitoringCycle"
                           /\ procs[i].pc \in {"finished", "threw"}
                           /\ procs' = [procs EXCEPT ![i].pc = "settled", ![1].isRunningMonitoring = FALSE,
                                                     ![1].monitoringResults = IF procs[i].pc = "finished" THEN "results" ELSE @,
                                                     ![1].error = IF procs[i].pc = "threw" THEN "Failed to run monitoring cycle" ELSE @]
                           /\ UNCHANGED <<cases, sources, updates, links, now, ticks, calls, results, last, cyc, media>>

NextAdmin == \/ mount
             \/ runMonitoring
             \/ \E i \in 2..Len(procs) : cycleSearched(i)
             \/ \E i \in 2..Len(procs) : cycleThrew(i)
             \/ \E i \in 2..Len(procs) : logged(i)
             \/ \E i \in 2..Len(procs) : runMonitoringResumes(i)

SpecAdmin == Init /\ [][NextAdmin]_vars

\* the cycles the page started whose runMonitoring has not resumed yet
Unsettled == {i \in 2..Len(procs) : procs[i].pc # "settled"}

\* C30: at most one cycle started from the page is in flight, a click while
\* the flag is set starts nothing, and the flag is set exactly while a
\* started cycle has not been settled: it is reset when the cycle has ended,
\* by returning or by throwing
C30_RunMonitoringIsMutex == procs # <<>> => /\ Cardinality(Unsettled) <= 1
                                            /\ procs[1].isRunningMonitoring <=> Unsettled # {}
                                            /\ Len(procs) - 1 = procs[1].clicks - procs[1].ignored

\* a cycle threw and was settled, a click was ignored, and a later click
\* started a new cycle
C30_Witness == /\ Len(procs) = 3
               /\ procs[2].pc = "settled"
               /\ procs[1].error # "null"
               /\ procs[1].ignored = 1
               /\ procs[3].pc = "searching"

====
